---- MODULE Spec2Model ----
(***************************************************************************)
(* Password-candidate generation and verification engine of calvinhon/WIO. *)
(*                                                                         *)
(* Python strings are sequences of one-character strings, so that len(),   *)
(* slicing, re.sub and str.lower are computed and not assumed.  The floats *)
(* 9.0, 8.0, ... used as confidences are the integers 9, 8, ...            *)
(***************************************************************************)
EXTENDS Integers, Sequences, FiniteSets, TLC

VARIABLES
    emails,               \* emails table: the stored row of the email, or NoRow
    personal_data,        \* personal_data table, organised by data_type
    llm_manager,          \* "none" when no backend was found, else "ollama"
    llm_outcome,          \* what the backend did on the last generate_response call
    candidates,           \* list returned by generate_passwords_for_email
    llm_candidates,       \* list returned by parse_llm_response in that call
    rule_candidates,      \* list returned by generate_rule_based_passwords in that call
    pc,                   \* position of the running operation
    variant,              \* which verifier runs: "enhanced", "basic" or "unlocker"
    password_candidates,  \* list handed to the verifier
    attachments,          \* PDF documents still to be tried, first one is current
    table,                \* password_candidates table rows of the email
    table_at_call,        \* the rows as they were when the current call started
    idx,                  \* candidates the for loop of the current call has taken
    attempts,             \* pikepdf.open calls of the current call, in order
    result,               \* outcome of the current verifier call
    working,              \* password reported as working by the current call
    llm_response,         \* text handed to parse_llm_response, character by character
    msg_body,             \* body text of the message being read, or None
    msg_sender,           \* From header of the message being read, or None
    found_hints,          \* hints returned by extract_password_rules_and_hints
    found_rules,          \* rules returned by extract_password_rules_and_hints
    context,              \* dict returned by extract_bank_context
    mailbox,              \* message ids the mail provider holds, in search order
    messages,             \* messages the running process_new_statements has left
    email_ids,            \* ids of the rows of the emails table
    processed_count,      \* processed_count of the running process_new_statements
    run_log,              \* what every run did with every message, in order
    returned,             \* what the last process_new_statements returned
    runs,                 \* calls of process_new_statements so far
    successful_password   \* unified_emails.successful_password of the email

vars == << emails, personal_data, llm_manager, llm_outcome, candidates,
           llm_candidates, rule_candidates, pc, variant, password_candidates, attachments,
           table, table_at_call, idx, attempts, result, working, llm_response, msg_body,
           msg_sender, found_hints, found_rules, context, mailbox, messages, email_ids,
           processed_count, run_log, returned, runs, successful_password >>

genVars == << emails, personal_data, llm_manager, llm_outcome, candidates,
              llm_candidates, rule_candidates >>

verVars == << variant, password_candidates, attachments, table, table_at_call,
              idx, attempts, result, working >>

batchVars == << mailbox, messages, email_ids, processed_count, run_log, returned, runs >>

clientVars == << mailbox, messages, email_ids, processed_count, run_log, returned, runs,
                 successful_password >>

txtVars == << llm_response, msg_body, msg_sender, found_hints, found_rules, context >>

-----------------------------------------------------------------------------
(* Bounds of the model *)

MaxHints == 1      \* stored password hints per email
MaxCards == 2      \* card fragments found in one email body
MaxLLM == 2        \* password entries in one LLM reply
MaxCands == 3      \* length of a list handed directly to a verifier
MaxDocs == 2       \* attachments of one email
MaxParts == 3      \* pieces (prose, braces, objects) an LLM reply text is made of
MaxToken == 4      \* characters of the token that follows "password: " in a text
MaxManyHints == 22 \* stored hints of an email whose candidates exceed the cap

-----------------------------------------------------------------------------
(* Python string helpers *)

RECURSIVE SeqsUpTo(_, _)
SeqsUpTo(S, n) ==
    IF n = 0 THEN { << >> }
    ELSE LET shorter == SeqsUpTo(S, n - 1)
         IN  shorter \cup { Append(s, x) : s \in shorter, x \in S }

Range(s) == { s[i] : i \in DOMAIN s }

NoDup(s) == \A i, j \in DOMAIN s : i # j => s[i] # s[j]

\* re.sub(r'[/-]', '', date)
StripSeparators(date) == SelectSeq(date, LAMBDA ch : ch \notin {"/", "-"})

\* mobile[-4:] if len(mobile) >= 4 else mobile
Last4(mobile) ==
    IF Len(mobile) >= 4 THEN SubSeq(mobile, Len(mobile) - 3, Len(mobile))
    ELSE mobile

UpperAlphabet == << "A", "B", "C", "D", "E", "F", "G", "H", "I", "J", "K", "L", "M",
                    "N", "O", "P", "Q", "R", "S", "T", "U", "V", "W", "X", "Y", "Z" >>
LowerAlphabet == << "a", "b", "c", "d", "e", "f", "g", "h", "i", "j", "k", "l", "m",
                    "n", "o", "p", "q", "r", "s", "t", "u", "v", "w", "x", "y", "z" >>

LowerOf ==
    [ ch \in Range(UpperAlphabet) |->
          LowerAlphabet[CHOOSE i \in DOMAIN UpperAlphabet : UpperAlphabet[i] = ch] ]

LowerChar(ch) == IF ch \in DOMAIN LowerOf THEN LowerOf[ch] ELSE ch

\* name.lower()
Lower(name) == [ i \in DOMAIN name |-> LowerChar(name[i]) ]

-----------------------------------------------------------------------------
(* The strings the model draws its inputs from *)

s1234 == << "1", "2", "3", "4" >>
s5678 == << "5", "6", "7", "8" >>
sAbc == << "a", "b", "c" >>
sZz99 == << "z", "z", "9", "9" >>
sDateSlash == << "0", "1", "/", "0", "1", "/", "9", "0" >>
sDateShort == << "1", "/", "1", "/", "9", "0" >>
sBirthDash == << "0", "1", "-", "0", "1", "-", "9", "0" >>
sMobile == << "0", "5", "0", "1", "2", "3", "4" >>
sMobileShort == << "1", "2", "3" >>
sName == << "A", "l" >>

\* A password field of the LLM reply that is a JSON array, ["1234"]: json.loads
\* makes it a Python list, which PasswordCandidate stores as it is.  The first
\* element marks the value as a list; no Python string starts with it.
sListPwd == << "list" >> \o s1234

sSender == << "x", "@", "y" >>
HintPool == { s1234, sAbc }
CardPool == { s1234, s5678 }

None == << "None" >>

-----------------------------------------------------------------------------
(* Regular-expression matching on texts, as the patterns of the extractors use it *)

Digits == { "0", "1", "2", "3", "4", "5", "6", "7", "8", "9" }
Letters == Range(UpperAlphabet) \cup Range(LowerAlphabet)
\* \w
WordChars == Letters \cup Digits \cup { "_" }
\* \s
Whitespace == { " ", "\n", "\t" }
\* [A-Za-z0-9@#$%^&*()_+-=\[\]{}|;:,.<>?]; inside the class +-= is the range
\* from "+" to "=", which holds , - . / : ; < and the digits
HintClass ==
    Letters \cup Digits
        \cup { "@", "#", "$", "%", "^", "&", "*", "(", ")", "_", "+", ",", "-", ".", "/",
               ":", ";", "<", "=", "[", "]", "{", "}", "|", ">", "?" }

Min(S) == CHOOSE x \in S : \A y \in S : x <= y
Max(S) == CHOOSE x \in S : \A y \in S : y <= x

\* number of characters from position i on that belong to S
RunLen(text, i, S) ==
    LET stops == { j \in i..Len(text) : text[j] \notin S }
    IN  IF i > Len(text) THEN 0
        ELSE IF stops = {} THEN Len(text) - i + 1
        ELSE Min(stops) - i

\* the literal word stands at position i; re.IGNORECASE compares lower-cased
StartsAt(text, i, word) ==
    /\ i >= 1
    /\ i + Len(word) - 1 <= Len(text)
    /\ \A k \in DOMAIN word : LowerChar(text[i + k - 1]) = word[k]

\* \b at position i (between text[i-1] and text[i])
Boundary(text, i) ==
    LET before == i > 1 /\ text[i - 1] \in WordChars
        after == i <= Len(text) /\ text[i] \in WordChars
    IN  before # after

-----------------------------------------------------------------------------
(* extract_password_rules_and_hints: the hints *)

MinHintLen == 4
MaxHintLen == 20

sPassword == << "p", "a", "s", "s", "w", "o", "r", "d" >>
sPdfPassword == << "p", "d", "f", " ", "p", "a", "s", "s", "w", "o", "r", "d" >>
sToOpen == << "t", "o", " ", "o", "p", "e", "n" >>

NoMatch == [ found |-> FALSE, start |-> 0, stop |-> 0 ]

\* [\s:=]*([A-Za-z0-9@#...]{4,20}) tried at position from: the separators are
\* taken greedily and given back one by one until at least four characters of the
\* class follow; the group takes up to twenty of them
HintCapture(text, from) ==
    LET seps == RunLen(text, from, Whitespace \cup { ":", "=" })
        ks == { k \in 0..seps : RunLen(text, from + k, HintClass) >= MinHintLen }
    IN  IF ks = {} THEN NoMatch
        ELSE LET start == from + Max(ks)
                 n == RunLen(text, start, HintClass)
             IN  [ found |-> TRUE, start |-> start,
                   stop |-> start + (IF n > MaxHintLen THEN MaxHintLen ELSE n) - 1 ]

\* re.finditer(word + r'[\s:=]*(...)', email_body, re.IGNORECASE): group(1) of the
\* matches from position pos on, leftmost first, a match starting after the one
\* before ended
RECURSIVE HintMatches(_, _, _)
HintMatches(text, word, pos) ==
    LET starts == { i \in pos..Len(text) :
                        StartsAt(text, i, word) /\ HintCapture(text, i + Len(word)).found }
    IN  IF starts = {} THEN << >>
        ELSE LET m == HintCapture(text, Min(starts) + Len(word))
             IN  << SubSeq(text, m.start, m.stop) >> \o HintMatches(text, word, m.stop + 1)

\* positions of "password" that 'to open.*password' can end at when "to open"
\* stands at i: on the same line, and followed by a capture
ToOpenEnds(text, i) ==
    { j \in (i + Len(sToOpen))..Len(text) :
          /\ StartsAt(text, j, sPassword)
          /\ HintCapture(text, j + Len(sPassword)).found
          /\ "\n" \notin Range(SubSeq(text, i + Len(sToOpen), j - 1)) }

\* re.finditer(r'to open.*password[\s:=]*(...)', ...): the star is greedy, the
\* last "password" of the line is taken
RECURSIVE ToOpenMatches(_, _)
ToOpenMatches(text, pos) ==
    LET starts == { i \in pos..Len(text) :
                        StartsAt(text, i, sToOpen) /\ ToOpenEnds(text, i) # {} }
    IN  IF starts = {} THEN << >>
        ELSE LET m == HintCapture(text, Max(ToOpenEnds(text, Min(starts))) + Len(sPassword))
             IN  << SubSeq(text, m.start, m.stop) >> \o ToOpenMatches(text, m.stop + 1)

\* \b\d{2}<sep>\d{2}<sep>\d{4}\b matches at position i
IsDateAt(text, i, sep) ==
    /\ i + 9 <= Len(text)
    /\ Boundary(text, i)
    /\ Boundary(text, i + 10)
    /\ \A k \in { 0, 1, 3, 4, 6, 7, 8, 9 } : text[i + k] \in Digits
    /\ text[i + 2] = sep
    /\ text[i + 5] = sep

\* [d.replace(sep, '') for d in re.findall(r'\b\d{2}<sep>\d{2}<sep>\d{4}\b', email_body)]
RECURSIVE DateHints(_, _, _)
DateHints(text, sep, pos) ==
    LET starts == { i \in pos..Len(text) : IsDateAt(text, i, sep) }
    IN  IF starts = {} THEN << >>
        ELSE << SelectSeq(SubSeq(text, Min(starts), Min(starts) + 9), LAMBDA ch : ch # sep) >>
                 \o DateHints(text, sep, Min(starts) + 10)

\* positions where a word starts
WordStarts(text) == { i \in DOMAIN text : text[i] \in WordChars /\ Boundary(text, i) }

\* re.findall(r'\b\d{4,8}\b', email_body): the words made of four to eight digits
DigitRunHints(text) ==
    { SubSeq(text, i, i + RunLen(text, i, Digits) - 1) :
          i \in { j \in WordStarts(text) :
                      /\ RunLen(text, j, Digits) \in 4..8
                      /\ RunLen(text, j, Digits) = RunLen(text, j, WordChars) } }

\* the word at i has the form [A-Za-z]*\d+[A-Za-z]* or \d+[A-Za-z]+\d*
IsMixedWord(text, i) ==
    LET w == RunLen(text, i, WordChars)
        a == RunLen(text, i, Letters)
        d == RunLen(text, i + a, Digits)
        c == RunLen(text, i + a + d, Letters)
        e == RunLen(text, i + a + d + c, Digits)
    IN  \/ d >= 1 /\ a + d + c = w
        \/ a = 0 /\ d >= 1 /\ c >= 1 /\ d + c + e = w

\* [h for h in re.findall(r'\b[A-Za-z]*\d+[A-Za-z]*\b|\b\d+[A-Za-z]+\d*\b', email_body)
\*  if len(h) >= 4]
MixedHints(text) ==
    { SubSeq(text, i, i + RunLen(text, i, WordChars) - 1) :
          i \in { j \in WordStarts(text) :
                      IsMixedWord(text, j) /\ RunLen(text, j, WordChars) >= 4 } }

\* set(hints) of extract_password_rules_and_hints for a text that is not empty
HintSet(email_body) ==
    { h \in Range(HintMatches(email_body, sPassword, 1))
               \cup Range(HintMatches(email_body, sPdfPassword, 1))
               \cup Range(ToOpenMatches(email_body, 1)) : Len(h) >= 4 }
        \cup Range(DateHints(email_body, "/", 1))
        \cup Range(DateHints(email_body, "-", 1))
        \cup DigitRunHints(email_body)
        \cup MixedHints(email_body)

-----------------------------------------------------------------------------
(* extract_password_rules_and_hints: the rules *)

MaxRuleTail == 100
MinRuleLen == 10

\* [^\n.]
RuleTailChar(ch) == ch \notin { "\n", "." }

RuleTailRun(text, i) ==
    LET stops == { j \in i..Len(text) : ~RuleTailChar(text[j]) }
    IN  IF i > Len(text) THEN 0
        ELSE IF stops = {} THEN Len(text) - i + 1
        ELSE Min(stops) - i

\* [\s:]*([^\n.]{1,100}) tried at position from: the index of the last character
\* matched, 0 when there is no match
RuleTailEnd(text, from) ==
    LET seps == RunLen(text, from, Whitespace \cup { ":" })
        ks == { k \in 0..seps : RuleTailRun(text, from + k) >= 1 }
    IN  IF ks = {} THEN 0
        ELSE LET start == from + Max(ks)
                 n == RuleTailRun(text, start)
             IN  start + (IF n > MaxRuleTail THEN MaxRuleTail ELSE n) - 1

\* .*word tried at position from: the indices word can end at, the star staying
\* on the line
StarThen(text, from, word) ==
    { j + Len(word) - 1 :
          j \in { k \in from..Len(text) :
                      /\ StartsAt(text, k, word)
                      /\ "\n" \notin Range(SubSeq(text, from, k - 1)) } }

\* .*last (\d+) digits tried at position from
StarThenLastDigits(text, from) ==
    { j + 4 + RunLen(text, j + 5, Digits) + 7 :
          j \in { k \in from..Len(text) :
                      /\ StartsAt(text, k, << "l", "a", "s", "t", " " >>)
                      /\ "\n" \notin Range(SubSeq(text, from, k - 1))
                      /\ RunLen(text, k + 5, Digits) >= 1
                      /\ StartsAt(text, k + 5 + RunLen(text, k + 5, Digits), << " ", "d", "i", "g", "i", "t", "s" >>) } }

\* the patterns of rule_patterns, in the order of the list
Pattern(kind, heads, tail) == [ kind |-> kind, heads |-> heads, tail |-> tail ]

PasswordThen(tail) == Pattern("span", { sPassword }, tail)

rule_patterns ==
    << Pattern("tail", { << "p", "a", "s", "s", "w", "o", "r", "d", " ", "i", "s" >>, << "p", "a", "s", "s", "w", "o", "r", "d", " ", "w", "i", "l", "l", " ", "b", "e" >>, << "p", "a", "s", "s", "w", "o", "r", "d", " ", "f", "o", "r", "m", "a", "t" >>,
                         << "p", "a", "s", "s", "w", "o", "r", "d", " ", "s", "t", "r", "u", "c", "t", "u", "r", "e" >>,
                         << "p", "a", "s", "s", "w", "o", "r", "d", " ", "c", "o", "n", "t", "a", "i", "n", "s" >> }, << >>),
       Pattern("tail", { sPdfPassword }, << >>),
       Pattern("opentail", { sToOpen }, sPassword),
       Pattern("tail", { << "s", "t", "a", "t", "e", "m", "e", "n", "t", " ", "p", "a", "s", "s", "w", "o", "r", "d" >> }, << >>),
       Pattern("digits", { sPassword }, << >>),
       PasswordThen(<< "b", "i", "r", "t", "h", " ", "d", "a", "t", "e" >>),
       PasswordThen(<< "m", "o", "b", "i", "l", "e", " ", "n", "u", "m", "b", "e", "r" >>),
       PasswordThen(<< "c", "a", "r", "d", " ", "n", "u", "m", "b", "e", "r" >>),
       PasswordThen(<< "a", "c", "c", "o", "u", "n", "t", " ", "n", "u", "m", "b", "e", "r" >>),
       PasswordThen(<< "f", "i", "r", "s", "t", " ", "n", "a", "m", "e" >>),
       PasswordThen(<< "l", "a", "s", "t", " ", "n", "a", "m", "e" >>),
       PasswordThen(<< "d", "a", "t", "e", " ", "o", "f", " ", "b", "i", "r", "t", "h" >>),
       PasswordThen(<< "p", "h", "o", "n", "e", " ", "n", "u", "m", "b", "e", "r" >>),
       PasswordThen(<< "d", "d", "m", "m", "y", "y", "y", "y" >>),
       PasswordThen(<< "d", "d", "/", "m", "m", "/", "y", "y", "y", "y" >>),
       PasswordThen(<< "y", "y", "y", "y", "m", "m", "d", "d" >>),
       Pattern("span", { << "c", "o", "m", "b", "i", "n", "a", "t", "i", "o", "n", " ", "o", "f" >> }, sPassword),
       Pattern("combo", { sPassword }, << >>) >>

\* the index the match of pattern starting at i ends at, 0 when the pattern does
\* not match at i; a greedy star reaches the last continuation on the line
RuleMatchEnd(text, i, pattern) ==
    LET heads == { h \in pattern.heads : StartsAt(text, i, h) }
    IN  IF heads = {} THEN 0
        ELSE LET from == i + Len(CHOOSE h \in heads : TRUE)
                 ends == CASE pattern.kind = "tail" -> { RuleTailEnd(text, from) } \ { 0 }
                           [] pattern.kind = "opentail" ->
                                LET ps == { e \in StarThen(text, from, pattern.tail) :
                                                RuleTailEnd(text, e + 1) # 0 }
                                IN  IF ps = {} THEN {} ELSE { RuleTailEnd(text, Max(ps) + 1) }
                           [] pattern.kind = "span" -> StarThen(text, from, pattern.tail)
                           [] pattern.kind = "digits" -> StarThenLastDigits(text, from)
                           [] pattern.kind = "combo" ->
                                UNION { StarThen(text, c + 1, << "o", "f" >>) :
                                            c \in StarThen(text, from, << "c", "o", "m", "b", "i", "n", "a", "t", "i", "o", "n" >>) }
             IN  IF ends = {} THEN 0 ELSE Max(ends)

\* str.strip() of a text that does not start with white space
RECURSIVE StripRight(_)
StripRight(text) ==
    IF text # << >> /\ text[Len(text)] \in Whitespace
    THEN StripRight(SubSeq(text, 1, Len(text) - 1))
    ELSE text

\* [m.group(0).strip() for m in re.finditer(pattern, email_body, re.IGNORECASE)]
\* from position pos on
RECURSIVE RuleMatches(_, _, _)
RuleMatches(text, pattern, pos) ==
    LET starts == { i \in pos..Len(text) : RuleMatchEnd(text, i, pattern) # 0 }
    IN  IF starts = {} THEN << >>
        ELSE LET i == Min(starts)
                 e == RuleMatchEnd(text, i, pattern)
             IN  << StripRight(SubSeq(text, i, e)) >> \o RuleMatches(text, pattern, e + 1)

\* set(rules) of extract_password_rules_and_hints for a text that is not empty
RuleSet(email_body) ==
    { r \in UNION { Range(RuleMatches(email_body, rule_patterns[k], 1)) :
                        k \in DOMAIN rule_patterns } : Len(r) > MinRuleLen }

\* extract_password_rules_and_hints(email_body, subject, sender): the hints and
\* the rules before list(set(...)) puts them in an order; subject and sender are
\* not read
extract_password_rules_and_hints(email_body) ==
    IF email_body = None \/ email_body = << >>
    THEN [ hints |-> {}, rules |-> {} ]
    ELSE [ hints |-> HintSet(email_body), rules |-> RuleSet(email_body) ]

\* list(set(xs)): the elements of the set in one of their orders
ListsOf(S) == { xs \in [ 1..Cardinality(S) -> S ] : NoDup(xs) }

-----------------------------------------------------------------------------
(* extract_bank_context: what its patterns find in a text *)

\* the (bank_id, regex) table of bank_patterns, in the order of the dict; every
\* regex is an alternation of literal words
bank_patterns ==
    << [ bank |-> "fab", words |-> { << "f", "a", "b" >>, << "f", "i", "r", "s", "t", " ", "a", "b", "u", " ", "d", "h", "a", "b", "i", " ", "b", "a", "n", "k" >> } ],
       [ bank |-> "adcb", words |-> { << "a", "d", "c", "b" >>, << "a", "b", "u", " ", "d", "h", "a", "b", "i", " ", "c", "o", "m", "m", "e", "r", "c", "i", "a", "l", " ", "b", "a", "n", "k" >> } ],
       [ bank |-> "enbd", words |-> { << "e", "n", "b", "d" >>, << "e", "m", "i", "r", "a", "t", "e", "s", " ", "n", "b", "d" >> } ],
       [ bank |-> "adib", words |-> { << "a", "d", "i", "b" >>, << "a", "b", "u", " ", "d", "h", "a", "b", "i", " ", "i", "s", "l", "a", "m", "i", "c", " ", "b", "a", "n", "k" >> } ],
       [ bank |-> "dib", words |-> { << "d", "i", "b" >>, << "d", "u", "b", "a", "i", " ", "i", "s", "l", "a", "m", "i", "c", " ", "b", "a", "n", "k" >> } ],
       [ bank |-> "mashreq", words |-> { << "m", "a", "s", "h", "r", "e", "q" >> } ],
       [ bank |-> "rakbank", words |-> { << "r", "a", "k" >>, << "r", "a", "k", "b", "a", "n", "k" >> } ],
       [ bank |-> "nbf", words |-> { << "n", "b", "f" >>, << "n", "a", "t", "i", "o", "n", "a", "l", " ", "b", "a", "n", "k", " ", "o", "f", " ", "f", "u", "j", "a", "i", "r", "a", "h" >> } ],
       [ bank |-> "hsbc", words |-> { << "h", "s", "b", "c" >> } ],
       [ bank |-> "citibank", words |-> { << "c", "i", "t", "i" >> } ],
       [ bank |-> "sc", words |-> { << "s", "t", "a", "n", "d", "a", "r", "d", " ", "c", "h", "a", "r", "t", "e", "r", "e", "d" >> } ] >>

\* re.search(pattern, text.lower()) for the pattern of table entry k; StartsAt
\* compares the lower-cased characters of the text
BankSearch(k, text) ==
    \E word \in bank_patterns[k].words :
        \E i \in 1..(Len(text) - Len(word) + 1) : StartsAt(text, i, word)

\* the table entries whose pattern is found in the text
BanksFound(text) == { k \in DOMAIN bank_patterns : BankSearch(k, text) }

\* word.*?(\d{lo,...}) matching at i: the lazy star stops at the first run of lo
\* digits on the line; the index the group starts at, 0 when there is no match
LazyDigitsStart(text, i, word, lo) ==
    LET from == i + Len(word)
        qs == { q \in from..Len(text) :
                    /\ RunLen(text, q, Digits) >= lo
                    /\ "\n" \notin Range(SubSeq(text, from, q - 1)) }
    IN  IF ~StartsAt(text, i, word) \/ qs = {} THEN 0 ELSE Min(qs)

\* [m.group(1) for m in re.finditer(word + r'.*?(\d{lo,hi})', email_body,
\*  re.IGNORECASE)] from position pos on; the group takes up to hi digits
RECURSIVE LazyDigitsMatches(_, _, _, _, _)
LazyDigitsMatches(text, word, lo, hi, pos) ==
    LET starts == { i \in pos..Len(text) : LazyDigitsStart(text, i, word, lo) # 0 }
    IN  IF starts = {} THEN << >>
        ELSE LET q == LazyDigitsStart(text, Min(starts), word, lo)
                 n == RunLen(text, q, Digits)
                 e == q + (IF n > hi THEN hi ELSE n) - 1
             IN  << SubSeq(text, q, e) >> \o LazyDigitsMatches(text, word, lo, hi, e + 1)

account_patterns == << << "a", "c", "c", "o", "u", "n", "t" >>, << "a", "/", "c" >>, << "a", "c", "c", "o", "u", "n", "t", " ", "e", "n", "d", "i", "n", "g" >> >>
card_patterns == << << "c", "a", "r", "d" >>, << "c", "r", "e", "d", "i", "t", " ", "c", "a", "r", "d" >>, << "e", "n", "d", "i", "n", "g" >> >>

AccountNumbersIn(text) ==
    LazyDigitsMatches(text, account_patterns[1], 4, 6, 1)
        \o LazyDigitsMatches(text, account_patterns[2], 4, 6, 1)
        \o LazyDigitsMatches(text, account_patterns[3], 4, 6, 1)

CardNumbersIn(text) ==
    LazyDigitsMatches(text, card_patterns[1], 4, 4, 1)
        \o LazyDigitsMatches(text, card_patterns[2], 4, 4, 1)
        \o LazyDigitsMatches(text, card_patterns[3], 4, 4, 1)

\* \b(\d{a}[/-]\d{b}[/-]\d{c})\b matching at i with a, b, c in the given ranges:
\* the index the match ends at, 0 when there is none; each group of digits is a
\* whole run, since a separator or a word boundary has to follow it
DateEnd(text, i, as, bs, cs) ==
    LET a == RunLen(text, i, Digits)
        b == RunLen(text, i + a + 1, Digits)
        c == RunLen(text, i + a + b + 2, Digits)
        e == i + a + b + c + 1
    IN  IF /\ Boundary(text, i)
           /\ a \in as /\ b \in bs /\ c \in cs
           /\ e <= Len(text)
           /\ text[i + a] \in { "/", "-" }
           /\ text[i + a + b + 1] \in { "/", "-" }
           /\ Boundary(text, e + 1)
        THEN e ELSE 0

\* [m.group(1) for m in re.finditer(pattern, email_body)] from position pos on
RECURSIVE DateMatches(_, _, _, _, _)
DateMatches(text, as, bs, cs, pos) ==
    LET starts == { i \in pos..Len(text) : DateEnd(text, i, as, bs, cs) # 0 }
    IN  IF starts = {} THEN << >>
        ELSE LET e == DateEnd(text, Min(starts), as, bs, cs)
             IN  << SubSeq(text, Min(starts), e) >> \o DateMatches(text, as, bs, cs, e + 1)

DatesIn(text) ==
    DateMatches(text, 1..2, 1..2, 2..4, 1) \o DateMatches(text, 2..4, 1..2, 1..2, 1)

\* an email body as extract_bank_context reads it: the fragments its account,
\* card and date patterns find in the text, and the banks its text names
BodyOf(text) ==
    [ cards |-> CardNumbersIn(text),
      accounts |-> AccountNumbersIn(text),
      dates |-> DatesIn(text),
      banks |-> BanksFound(text),
      null |-> FALSE ]

\* the email_body column of a row stored without a body
NullBody == [ null |-> TRUE ]

-----------------------------------------------------------------------------
(* PasswordCandidate and the rule-based generator *)

PasswordCandidate(password, confidence, source, reasoning) ==
    [ password |-> password, confidence |-> confidence,
      source |-> source, reasoning |-> reasoning ]

MapSeq(s, F(_)) == [ i \in DOMAIN s |-> F(s[i]) ]

RECURSIVE Flatten(_)
Flatten(ss) == IF ss = << >> THEN << >> ELSE Head(ss) \o Flatten(Tail(ss))

\* get_personal_data_organized()[data_type], or the empty list when the key is absent
PersonalValues(personal, data_type) ==
    IF data_type \in DOMAIN personal THEN personal[data_type] ELSE << >>

\* sender.lower() or email_body.lower() on a column that holds NULL
extract_bank_context_raises(email_body, sender) == email_body.null \/ sender = None

\* for bank, pattern in bank_patterns.items():
\*     if re.search(pattern, sender_lower) or re.search(pattern, email_lower): ... break
IdentifyBank(email_body, sender) ==
    LET found == { k \in DOMAIN bank_patterns :
                       BankSearch(k, sender) \/ k \in email_body.banks }
    IN  IF found = {} THEN "unknown" ELSE bank_patterns[Min(found)].bank

\* a context dict kept between the calls, its lists extended by every call
extract_bank_context_Accumulating(email_body, sender) ==
    LET before == IF context = [ bank |-> "none" ]
                  THEN [ account_numbers |-> << >>, card_numbers |-> << >>, dates |-> << >> ]
                  ELSE context
    IN  [ bank |-> IdentifyBank(email_body, sender),
          account_numbers |-> before.account_numbers \o email_body.accounts,
          card_numbers |-> before.card_numbers \o email_body.cards,
          dates |-> before.dates \o email_body.dates,
          amounts |-> << >> ]

\* The email body is read as far as the patterns read it: the fragments its
\* account, card and date patterns find, in the order they are appended.  The
\* dict and its lists are built anew by every call (lines 392-398); nothing of
\* the client is read or written.
extract_bank_context(email_body, sender) ==
    [ bank |-> IdentifyBank(email_body, sender),
      account_numbers |-> email_body.accounts,
      card_numbers |-> email_body.cards,
      dates |-> email_body.dates,
      amounts |-> << >> ]

DirectHintCandidates(password_hints) ==
    MapSeq(SelectSeq(password_hints, LAMBDA hint : Len(hint) >= 4),
           LAMBDA hint : PasswordCandidate(hint, 9, "direct_hint",
                                           << "Found direct password hint: ", hint >>))

BirthDateCandidates(personal) ==
    MapSeq(PersonalValues(personal, "birth_date"),
           LAMBDA date : PasswordCandidate(StripSeparators(date), 7, "birth_date",
                                           << "Birth date format: ", StripSeparators(date) >>))

CardCandidates_Confidence6(bank_context) ==
    MapSeq(bank_context.card_numbers,
           LAMBDA card_num : PasswordCandidate(card_num, 6, "card_number",
                                               << "Last 4 digits of card: ", card_num >>))

CardCandidates(bank_context) ==
    MapSeq(bank_context.card_numbers,
           LAMBDA card_num : PasswordCandidate(card_num, 8, "card_number",
                                               << "Last 4 digits of card: ", card_num >>))

AccountCandidates(bank_context) ==
    MapSeq(bank_context.account_numbers,
           LAMBDA acc_num : PasswordCandidate(acc_num, 7, "account_number",
                                              << "Account number digits: ", acc_num >>))

EmailDateCandidates_NoLengthFilter(bank_context) ==
    MapSeq(bank_context.dates,
           LAMBDA date : PasswordCandidate(StripSeparators(date), 6, "email_date",
                                           << "Date from email: ", StripSeparators(date) >>))

EmailDateCandidates(bank_context) ==
    MapSeq(SelectSeq(bank_context.dates, LAMBDA date : Len(StripSeparators(date)) >= 6),
           LAMBDA date : PasswordCandidate(StripSeparators(date), 6, "email_date",
                                           << "Date from email: ", StripSeparators(date) >>))

MobileCandidates(personal) ==
    MapSeq(PersonalValues(personal, "mobile_number"),
           LAMBDA mobile : PasswordCandidate(Last4(mobile), 6, "mobile_number",
                                             << "Last 4 digits of mobile: ", Last4(mobile) >>))

NameCardCandidates(personal, bank_context) ==
    Flatten(MapSeq(PersonalValues(personal, "first_name"),
                   LAMBDA name :
                       MapSeq(bank_context.card_numbers,
                              LAMBDA card :
                                  PasswordCandidate(Lower(name) \o card, 5, "name_card_combo",
                                      << "First name + card digits: ", Lower(name) \o card >>))))

\* password_rules and email_body are parameters the function never reads
generate_rule_based_passwords(email_body, password_rules, password_hints, personal, bank_context) ==
    DirectHintCandidates(password_hints)
        \o BirthDateCandidates(personal)
        \o CardCandidates(bank_context)
        \o AccountCandidates(bank_context)
        \o EmailDateCandidates(bank_context)
        \o MobileCandidates(personal)
        \o NameCardCandidates(personal, bank_context)

-----------------------------------------------------------------------------
(* The LLM collaborator and the parsing of its reply *)

\* What generate_response hands back: the reply text, as far as parse_llm_response
\* reads it.  kind "empty" is the empty string, "prose" a text without a {...}
\* substring, "badjson" a text whose {...} substring json.loads rejects (a
\* truncated object is one), "json" a decodable object whose "passwords" list is
\* passwords.
ResponseText(kind, passwords) == [ kind |-> kind, passwords |-> passwords ]

EmptyResponse == ResponseText("empty", << >>)

\* The confidence field of one entry of the reply: a number, absent, or a value
\* float() rejects (such as "high").
ConfNum(n) == [ k |-> "num", n |-> n ]
ConfMissing == [ k |-> "missing", n |-> 0 ]
ConfBad == [ k |-> "bad", n |-> 0 ]

LLMEntry(password, confidence) == [ password |-> password, confidence |-> confidence ]

EntryPool ==
    { LLMEntry(s1234, ConfNum(8)), LLMEntry(sZz99, ConfNum(11)),
      LLMEntry(s1234, ConfMissing), LLMEntry(sZz99, ConfBad),
      LLMEntry(sListPwd, ConfNum(8)) }

ResponseTexts ==
    { ResponseText("prose", << >>), ResponseText("badjson", << >>) }
        \cup { ResponseText("json", es) :
                   es \in { x \in SeqsUpTo(EntryPool, MaxLLM) : NoDup(x) } }

\* Backend behaviour on one POST: no connection, no answer within the timeout,
\* a status other than 200, or a 200 answer carrying a text.
\* The body of a non-200 answer is a text like any other.
LLMOutcomes ==
    { [ status |-> st, text |-> EmptyResponse ] : st \in {"unreachable", "timeout"} }
        \cup { [ status |-> "http500", text |-> t ] :
                   t \in { ResponseText("prose", << >>),
                           ResponseText("json", << LLMEntry(sZz99, ConfNum(11)) >>) } }
        \cup { [ status |-> "ok", text |-> t ] : t \in ResponseTexts }

NoOutcome == [ status |-> "not_called", text |-> EmptyResponse ]

generate_response_AnyStatus(outcome) == outcome.text

\* LocalLLMManager.generate_response: every exception of the backend call is
\* caught and the empty string returned
generate_response(outcome) ==
    IF outcome.status = "ok" THEN outcome.text ELSE EmptyResponse

\* float(pwd_data.get('confidence', 0))
FloatOf(confidence) == IF confidence.k = "num" THEN confidence.n ELSE 0

\* parse_llm_response: candidates are appended entry by entry; the first entry
\* whose confidence float() rejects raises inside the try block, and the
\* candidates appended so far are returned
parse_llm_response(response) ==
    IF response.kind # "json" THEN << >>
    ELSE LET entries == response.passwords
             bad == { i \in DOMAIN entries : entries[i].confidence.k = "bad" }
             n == IF bad = {} THEN Len(entries)
                  ELSE (CHOOSE i \in bad : \A j \in bad : i <= j) - 1
         IN  [ i \in 1..n |->
                 PasswordCandidate(entries[i].password, FloatOf(entries[i].confidence),
                                   "llm", << >>) ]

-----------------------------------------------------------------------------
(* The reply as a text, and what re.search and json.loads make of it *)

\* The characters of a reply, as far as the pattern and the decoder tell them
\* apart: "{" and "}" are braces, "K" stands for the text "passwords": [ that
\* "]" closes, "," separates entries, "e" and "f" stand for the members of one
\* entry and of another, "p" for a character of prose.
EntryOf(ch) ==
    IF ch = "e" THEN LLMEntry(s1234, ConfNum(8)) ELSE LLMEntry(sZz99, ConfNum(11))

ObjOne == << "{", "K", "{", "e", "}", "]", "}" >>
ObjTwo == << "{", "K", "{", "f", "}", ",", "{", "e", "}", "]", "}" >>
ObjTruncated == << "{", "K", "{", "e", "}" >>

PartPool == { << "p" >>, << "{" >>, << "}" >>, ObjOne, ObjTwo, ObjTruncated }

ReplyTexts == { Flatten(parts) : parts \in SeqsUpTo(PartPool, MaxParts) }

\* re.search(r'\{.*\}', response, re.DOTALL).group(0): from the first "{" to the
\* last "}" of the text, the star being greedy; None when no "}" follows a "{"
re_search_braces(text) ==
    LET opens == { i \in DOMAIN text : text[i] = "{" }
        closes == { i \in DOMAIN text : text[i] = "}" }
    IN  IF opens = {} \/ ~(\E j \in closes : j > Min(opens))
        THEN None
        ELSE SubSeq(text, Min(opens), Max(closes))

JsonError == [ ok |-> FALSE, passwords |-> << >> ]

\* the entries between "passwords": [ and ]
RECURSIVE JsonEntries(_)
JsonEntries(t) ==
    IF t = << >> THEN [ ok |-> TRUE, passwords |-> << >> ]
    ELSE IF Len(t) >= 3 /\ t[1] = "{" /\ t[2] \in { "e", "f" } /\ t[3] = "}"
         THEN IF Len(t) = 3
              THEN [ ok |-> TRUE, passwords |-> << EntryOf(t[2]) >> ]
              ELSE IF t[4] = "," /\ Len(t) > 4
                   THEN LET rest == JsonEntries(SubSeq(t, 5, Len(t)))
                        IN  [ ok |-> rest.ok,
                              passwords |-> << EntryOf(t[2]) >> \o rest.passwords ]
                   ELSE JsonError
         ELSE JsonError

\* json.loads(json_str) followed by data.get('passwords', []): the whole string
\* must be one object; an object without the key has no passwords
json_loads(json_str) ==
    LET n == Len(json_str)
    IN  IF json_str = << "{", "}" >> THEN [ ok |-> TRUE, passwords |-> << >> ]
        ELSE IF n = 3 /\ json_str[1] = "{" /\ json_str[2] \in { "e", "f" } /\ json_str[3] = "}"
             THEN [ ok |-> TRUE, passwords |-> << >> ]
        ELSE IF n >= 4 /\ json_str[1] = "{" /\ json_str[2] = "K"
                       /\ json_str[n - 1] = "]" /\ json_str[n] = "}"
             THEN JsonEntries(SubSeq(json_str, 3, n - 2))
        ELSE JsonError

\* what parse_llm_response reads of a text: see ResponseText
Decoded(text) ==
    LET json_match == re_search_braces(text)
    IN  IF json_match = None THEN ResponseText("prose", << >>)
        ELSE LET data == json_loads(json_match)
             IN  IF data.ok THEN ResponseText("json", data.passwords)
                 ELSE ResponseText("badjson", << >>)

\* parse_llm_response on the text itself
parse_llm_response_text(text) == parse_llm_response(Decoded(text))

-----------------------------------------------------------------------------
(* generate_passwords_for_email *)

TopCandidates == 20

NoRow == [ stored |-> FALSE ]

Front(s) == SubSeq(s, 1, Len(s) - 1)

SortByConfidence_Unsorted(cs) == cs

RECURSIVE SortByConfidence_Unstable(_)
SortByConfidence_Unstable(cs) ==
    IF cs = << >> THEN << >>
    ELSE LET done == SortByConfidence_Unstable(Front(cs))
             c == cs[Len(cs)]
             k == Cardinality({ i \in DOMAIN done : done[i].confidence > c.confidence })
         IN  SubSeq(done, 1, k) \o << c >> \o SubSeq(done, k + 1, Len(done))

\* sorted(candidates, key=lambda x: x.confidence, reverse=True): Python's sort is
\* stable, also with reverse=True
RECURSIVE SortByConfidence(_)
SortByConfidence(cs) ==
    IF cs = << >> THEN << >>
    ELSE LET done == SortByConfidence(Front(cs))
             c == cs[Len(cs)]
             k == Cardinality({ i \in DOMAIN done : done[i].confidence >= c.confidence })
         IN  SubSeq(done, 1, k) \o << c >> \o SubSeq(done, k + 1, Len(done))

RemoveDuplicates_KeepAll(cs) == cs

\* the seen-set loop: the first candidate of each password value is kept
RECURSIVE RemoveDuplicates(_)
RemoveDuplicates(cs) ==
    IF cs = << >> THEN << >>
    ELSE LET done == RemoveDuplicates(Front(cs))
             c == cs[Len(cs)]
         IN  IF \E i \in DOMAIN done : done[i].password = c.password
             THEN done
             ELSE Append(done, c)

\* hash(candidate.password), which `candidate.password not in seen` computes:
\* lists and dicts are unhashable and raise TypeError
Unhashable(password) == password # << >> /\ password[1] = "list"

Truncate_KeepLast(cs, n) == SubSeq(cs, IF Len(cs) < n THEN 1 ELSE Len(cs) - n + 1, Len(cs))

\* unique_candidates[:n]
Truncate(cs, n) == SubSeq(cs, 1, IF Len(cs) < n THEN Len(cs) ELSE n)

LLMCandidates(manager, outcome) ==
    IF manager # "none" THEN parse_llm_response(generate_response(outcome)) ELSE << >>

RuleCandidatesOf(row, personal) ==
    generate_rule_based_passwords(row.email_body, row.password_rules, row.password_hints,
                                  personal, extract_bank_context(row.email_body, row.sender))

MergedCandidates(row, personal, manager, outcome) ==
    LLMCandidates(manager, outcome) \o RuleCandidatesOf(row, personal)

generate_passwords_for_email(row, personal, manager, outcome) ==
    IF ~row.stored THEN << >>
    ELSE Truncate(RemoveDuplicates(SortByConfidence(
             MergedCandidates(row, personal, manager, outcome))), TopCandidates)

\* the call of extract_bank_context stands before the try block of the LLM step
ContextRaises(row) == row.stored /\ extract_bank_context_raises(row.email_body, row.sender)

\* The context extraction and the seen-set loop stand outside every try block:
\* the AttributeError of a NULL column and the TypeError of an unhashable
\* password leave generate_passwords_for_email as an exception.
generate_passwords_for_email_raises(row, personal, manager, outcome) ==
    /\ row.stored
    /\ \/ ContextRaises(row)
       \/ \E c \in Range(MergedCandidates(row, personal, manager, outcome)) :
              Unhashable(c.password)

-----------------------------------------------------------------------------
(* The stores the generator reads *)

RuleText == "password is your date of birth"

HintLists == { hs \in SeqsUpTo(HintPool, MaxHints) : NoDup(hs) }

BodyExtras ==
    { [ accounts |-> << >>, dates |-> << >> ],
      [ accounts |-> << s1234 >>, dates |-> << >> ],
      [ accounts |-> << >>, dates |-> << sDateSlash >> ],
      [ accounts |-> << >>, dates |-> << sDateShort >> ],
      [ accounts |-> << s1234 >>, dates |-> << sDateSlash >> ] }

EmailBodies ==
    { [ cards |-> cs, accounts |-> x.accounts, dates |-> x.dates, banks |-> {},
        null |-> FALSE ] :
          cs \in SeqsUpTo(CardPool, MaxCards), x \in BodyExtras }

StoredRows ==
    { [ stored |-> TRUE, email_body |-> b, sender |-> sSender, subject |-> "statement",
        password_hints |-> hs, password_rules |-> rs ] :
          b \in EmailBodies, hs \in HintLists, rs \in { << >>, << RuleText >> } }

NoPersonalData == [ t \in {} |-> << >> ]

PersonalTables ==
    { NoPersonalData,
      "birth_date" :> << sBirthDash >>,
      "mobile_number" :> << sMobile, sMobileShort >>,
      "birth_date" :> << sBirthDash >> @@ "mobile_number" :> << sMobile, sMobileShort >>
          @@ "first_name" :> << sName >> }

NoTable == [ p \in {} |-> [ tested |-> FALSE, works |-> FALSE ] ]

VerifierIdle ==
    /\ variant = "none"
    /\ password_candidates = << >>
    /\ attachments = << >>
    /\ table = NoTable
    /\ table_at_call = NoTable
    /\ idx = 0
    /\ attempts = << >>
    /\ result = "none"
    /\ working = None

NoContext == [ bank |-> "none" ]

ExtractIdle ==
    /\ msg_body = << >>
    /\ msg_sender = << >>
    /\ found_hints = << >>
    /\ found_rules = << >>
    /\ context = NoContext

TextIdle == llm_response = << >> /\ ExtractIdle

\* no run of process_new_statements and no unified email
ClientIdle ==
    /\ mailbox = << >>
    /\ messages = << >>
    /\ email_ids = {}
    /\ processed_count = 0
    /\ run_log = << >>
    /\ returned = None
    /\ runs = 0
    /\ successful_password = None

\* rows of emails whose body or sender is empty or NULL, without hints and rules
AbsentRows ==
    { [ stored |-> TRUE, email_body |-> b, sender |-> sd, subject |-> "statement",
        password_hints |-> << >>, password_rules |-> << >> ] :
          b \in { NullBody, BodyOf(<< >>) }, sd \in { None, << >>, sSender } }

\* the row was found and its context extracted: the LLM step and the rule-based
\* step are reached
ReachesSteps(row) == row.stored /\ ~ContextRaises(row)

\* what the backend can do in a call of generate_passwords_for_email for the row
OutcomesFor(row, manager) ==
    IF manager = "none" \/ ~ReachesSteps(row) THEN { NoOutcome } ELSE LLMOutcomes

-----------------------------------------------------------------------------
(* Specification of candidate generation *)

Init ==
    /\ ClientIdle
    /\ emails \in StoredRows \cup AbsentRows \cup { NoRow }
    /\ personal_data \in PersonalTables
    /\ llm_manager \in { "none", "ollama" }
    /\ llm_outcome = NoOutcome
    /\ candidates = << >>
    /\ llm_candidates = << >>
    /\ rule_candidates = << >>
    /\ pc = "idle"
    /\ VerifierIdle
    /\ TextIdle

GeneratePasswordsForEmail ==
    /\ pc = "idle"
    /\ \E outcome \in OutcomesFor(emails, llm_manager) :
          LET raises == generate_passwords_for_email_raises(emails, personal_data,
                                                            llm_manager, outcome)
          IN  /\ llm_outcome' = outcome
              /\ candidates' =
                     IF raises THEN << >>
                     ELSE generate_passwords_for_email(emails, personal_data, llm_manager, outcome)
              /\ llm_candidates' =
                     IF ReachesSteps(emails) THEN LLMCandidates(llm_manager, outcome) ELSE << >>
              /\ rule_candidates' =
                     IF ReachesSteps(emails) THEN RuleCandidatesOf(emails, personal_data)
                     ELSE << >>
              /\ pc' = IF raises THEN "raised" ELSE "generated"
    /\ UNCHANGED << emails, personal_data, llm_manager >>
    /\ UNCHANGED verVars
    /\ UNCHANGED txtVars
    /\ UNCHANGED clientVars

Next == GeneratePasswordsForEmail

Spec == Init /\ [][Next]_vars

-----------------------------------------------------------------------------
(* Claims about candidate generation *)

Generated == pc = "generated"

\* the list in insertion order: LLM candidates first, then the rule-based ones
Merged == llm_candidates \o rule_candidates

\* C1: the list returned by generate_passwords_for_email holds no two candidates
\* with the same password value.
C1_UniquePasswords ==
    Generated =>
        \A i, j \in DOMAIN candidates :
            i # j => candidates[i].password # candidates[j].password

\* a password value was generated more than once and two candidates were returned
C1_Witness ==
    /\ Generated
    /\ Len(candidates) >= 2
    /\ \E m, n \in DOMAIN Merged : m < n /\ Merged[m].password = Merged[n].password

Survivor(p) ==
    CHOOSE m \in DOMAIN Merged :
        /\ Merged[m].password = p
        /\ \A n \in DOMAIN Merged :
              Merged[n].password = p =>
                  \/ Merged[n].confidence < Merged[m].confidence
                  \/ Merged[n].confidence = Merged[m].confidence /\ m <= n

LLMFailed ==
    /\ llm_manager # "none"
    /\ \/ llm_outcome.status \in { "unreachable", "timeout", "http500" }
       \/ llm_outcome.status = "ok" /\ llm_outcome.text.kind \in { "empty", "prose", "badjson" }

OnlyRuleBased ==
    /\ \A i \in DOMAIN candidates : candidates[i].source # "llm"
    /\ \A i \in DOMAIN candidates : candidates[i] \in Range(rule_candidates)
    /\ { rule_candidates[i].password : i \in DOMAIN rule_candidates }
           = { candidates[i].password : i \in DOMAIN candidates }

\* C10 as claimed: after an LLM failure the result is the rule-based candidates,
\* none of source llm, and is non-empty whenever a password rule was matched in
\* the email.
C10_Original_NonEmptyWhenRuleMatched ==
    Generated /\ emails.stored /\ LLMFailed =>
        /\ OnlyRuleBased
        /\ emails.password_rules # << >> => candidates # << >>

\* C10 amended: after an LLM failure the result is the rule-based candidates, none
\* of source llm, and is non-empty whenever one of the generation steps 1-7
\* yields a candidate; a matched password rule alone yields none.
C10_RuleBasedAfterLLMFailure ==
    Generated /\ emails.stored /\ LLMFailed =>
        /\ OnlyRuleBased
        /\ rule_candidates # << >> => candidates # << >>

\* an HTTP 500 answer whose body holds a passwords object, with rule-based
\* candidates generated
C10_Witness ==
    /\ Generated
    /\ emails.stored
    /\ LLMFailed
    /\ llm_outcome.status = "http500"
    /\ llm_outcome.text.kind = "json"
    /\ Len(candidates) >= 2

\* C11: the LLM path never raises to the caller: for every reply of the
\* backend, whatever the JSON types of its fields, generate_passwords_for_email
\* completes and returns a list.
C11_Original_LLMPathNeverRaises ==
    pc # "raised"

\* a decodable reply whose password field is a JSON array made the call raise
C11_Witness ==
    /\ pc = "raised"
    /\ llm_outcome.status = "ok"
    /\ llm_outcome.text.kind = "json"
    /\ \E i \in DOMAIN llm_candidates : Unhashable(llm_candidates[i].password)
    /\ candidates = << >>

-----------------------------------------------------------------------------
(* The verifiers: EnhancedGmailClient.try_unlock_pdf_enhanced ("enhanced"),      *)
(* EnhancedGmailClient.try_unlock_pdf ("basic"), PDFUnlocker.try_unlock_pdf      *)
(* ("unlocker")                                                                  *)

Variants == { "enhanced", "basic", "unlocker" }

PwdPool == { s1234, s5678, sZz99 }

\* A PDF document: not encrypted, or encrypted under one password.
Unprotected == [ protected |-> FALSE, password |-> << >> ]
Documents == { Unprotected } \cup { [ protected |-> TRUE, password |-> p ] : p \in PwdPool }

\* pikepdf.open(path, password=...) returns a document; the default password is ""
Opens(doc, password) == ~doc.protected \/ password = doc.password

\* What one attempt can do: "opened" when pikepdf opens the document (and, where
\* the verifier saves it, saves it), "wrong" for pikepdf's PasswordError, "error"
\* for any other exception of the decryption collaborator.
AttemptOutcomes(doc, password) ==
    { IF Opens(doc, password) THEN "opened" ELSE "wrong", "error" }

\* str(candidate.password): the passwords of the model are Python strings
PyStr(password) == password

\* the enhanced verifier walks PasswordCandidate objects, the others plain passwords
PasswordOf(v, item) == IF v = "enhanced" THEN item.password ELSE item

\* save_password_candidates: the rows of the email are replaced by one untested
\* row per candidate.  Rows are keyed by password: the UPDATE of
\* mark_password_result addresses them by (email_id, password).
save_password_candidates(cands) ==
    [ p \in { cands[i].password : i \in DOMAIN cands } |->
          [ tested |-> FALSE, works |-> FALSE ] ]

\* mark_password_result: UPDATE ... SET tested = 1, works = ? WHERE email_id = ? AND
\* password = ?; no row is touched when none matches
mark_password_result(rows, password, works) ==
    [ p \in DOMAIN rows |->
          IF p = password THEN [ tested |-> TRUE, works |-> works ] ELSE rows[p] ]

AfterPasswordless_FallThrough(v, outcome) ==
    CASE outcome = "opened" -> "continue"
      [] outcome = "wrong" -> "continue"
      [] OTHER -> "raise"

\* The first try block: only PasswordError is caught, in all three verifiers.
AfterPasswordless(v, outcome) ==
    CASE outcome = "opened" -> "return"
      [] outcome = "wrong" -> "continue"
      [] OTHER -> "raise"

AfterCandidate_WrongPasswordRaises(v, outcome, db) ==
    CASE outcome = "opened" -> "return"
      [] outcome = "wrong" -> "raise"
      [] OTHER -> "continue"

\* The body of the for loop.  db is what the persistence collaborator does when
\* mark_password_result is called ("ok" or "failed"); only the enhanced verifier
\* calls it: with True inside the try block, whose except Exception swallows a
\* failure, and with False inside the PasswordError handler, from where a
\* failure propagates.  The unlocker catches PasswordError alone.
AfterCandidate(v, outcome, db) ==
    CASE outcome = "opened" /\ v = "enhanced" /\ db = "failed" -> "continue"
      [] outcome = "opened" -> "return"
      [] outcome = "wrong" /\ v = "enhanced" /\ db = "failed" -> "raise"
      [] outcome = "wrong" -> "continue"
      [] outcome = "error" /\ v = "unlocker" -> "raise"
      [] OTHER -> "continue"

\* rows after the body of the loop ran for password
RowsAfterCandidate(v, rows, password, outcome, db) ==
    IF v = "enhanced" /\ db = "ok" /\ outcome \in { "opened", "wrong" }
    THEN mark_password_result(rows, password, outcome = "opened")
    ELSE rows

\* the persistence collaborator is called by the enhanced verifier alone, after
\* pikepdf opened the document or rejected the password
DbOutcomes(v, outcome) ==
    IF v = "enhanced" /\ outcome \in { "opened", "wrong" } THEN { "ok", "failed" } ELSE { "none" }

Attempt(position, password, outcome, db) ==
    [ position |-> position, password |-> password, outcome |-> outcome, db |-> db ]

CurrentDoc == Head(attachments)

\* the try block that opens the document with no password
TryWithoutPassword ==
    /\ pc = "call"
    /\ \E outcome \in AttemptOutcomes(CurrentDoc, << >>) :
          /\ attempts' = << Attempt(0, << >>, outcome, "none") >>
          /\ LET next == AfterPasswordless(variant, outcome)
             IN  /\ pc' = IF next = "continue" THEN "loop" ELSE "returned"
                 /\ result' = CASE next = "return" -> "success"
                                [] next = "raise" -> "raised"
                                [] OTHER -> "running"
    /\ idx' = 0
    /\ working' = None
    /\ table_at_call' = table
    /\ UNCHANGED << variant, password_candidates, attachments, table >>
    /\ UNCHANGED genVars
    /\ UNCHANGED txtVars
    /\ UNCHANGED clientVars

\* one iteration of the for loop over the candidates
TryCandidate ==
    /\ pc = "loop"
    /\ idx < Len(password_candidates)
    /\ LET item == password_candidates[idx + 1]
           password == PasswordOf(variant, item)
       IN  \E outcome \in AttemptOutcomes(CurrentDoc, PyStr(password)) :
           \E db \in DbOutcomes(variant, outcome) :
              LET next == AfterCandidate(variant, outcome, db)
              IN  /\ attempts' = Append(attempts, Attempt(idx + 1, PyStr(password), outcome, db))
                  /\ table' = RowsAfterCandidate(variant, table, password, outcome, db)
                  /\ pc' = IF next = "continue" THEN "loop" ELSE "returned"
                  /\ result' = CASE next = "return" -> "success"
                                 [] next = "raise" -> "raised"
                                 [] OTHER -> "running"
                  /\ working' = IF next = "return" THEN password ELSE working
    /\ idx' = idx + 1
    /\ UNCHANGED << variant, password_candidates, attachments, table_at_call >>
    /\ UNCHANGED genVars
    /\ UNCHANGED txtVars
    /\ UNCHANGED clientVars

\* the for loop ran out of candidates: return None
ReturnNone ==
    /\ pc = "loop"
    /\ idx = Len(password_candidates)
    /\ pc' = "returned"
    /\ result' = "not_found"
    /\ UNCHANGED << variant, password_candidates, attachments, table, table_at_call,
                    idx, attempts, working >>
    /\ UNCHANGED genVars
    /\ UNCHANGED txtVars
    /\ UNCHANGED clientVars

\* unlock_pdfs: the loop over the attachments of the email hands the same
\* candidates to try_unlock_pdf_enhanced for the next PDF; the loop over the
\* attachments around PDFUnlocker.unlock_and_save does the same with its
\* password_list; an exception leaves either loop
NextAttachment ==
    /\ pc = "returned"
    /\ variant \in { "enhanced", "unlocker" }
    /\ result # "raised"
    /\ Len(attachments) > 1
    /\ attachments' = Tail(attachments)
    /\ pc' = "call"
    /\ idx' = 0
    /\ attempts' = << >>
    /\ result' = "none"
    /\ working' = None
    /\ UNCHANGED << variant, password_candidates, table, table_at_call >>
    /\ UNCHANGED genVars
    /\ UNCHANGED txtVars
    /\ UNCHANGED clientVars

DocLists == SeqsUpTo(Documents, MaxDocs) \ { << >> }

InitVerifier ==
    /\ ClientIdle
    /\ emails = NoRow
    /\ personal_data = NoPersonalData
    /\ llm_manager = "none"
    /\ llm_outcome = NoOutcome
    /\ candidates = << >>
    /\ llm_candidates = << >>
    /\ rule_candidates = << >>
    /\ variant \in Variants
    /\ \E ps \in SeqsUpTo(PwdPool, MaxCands) :
          \/ /\ variant = "enhanced"
             /\ NoDup(ps)
             /\ password_candidates = DirectHintCandidates(ps)
             /\ table \in { save_password_candidates(DirectHintCandidates(ps)), NoTable }
             /\ attachments \in DocLists
          \/ /\ variant = "unlocker"
             /\ password_candidates = ps
             /\ table = NoTable
             /\ attachments \in DocLists
          \/ /\ variant = "basic"
             /\ password_candidates = ps
             /\ table = NoTable
             /\ attachments \in { << d >> : d \in Documents }
    /\ table_at_call = table
    /\ idx = 0
    /\ attempts = << >>
    /\ result = "none"
    /\ working = None
    /\ pc = "call"
    /\ TextIdle

NextVerifier == TryWithoutPassword \/ TryCandidate \/ ReturnNone \/ NextAttachment

SpecVerifier == InitVerifier /\ [][NextVerifier]_vars

-----------------------------------------------------------------------------
(* Claims about verification *)

Returned == pc = "returned"

CandidatePasswords ==
    { PyStr(PasswordOf(variant, password_candidates[i])) : i \in DOMAIN password_candidates }

\* both collaborators kept their contracts during the call: every attempt ended
\* with a document or a wrong-password error and every write went through
ContractKept ==
    \A k \in DOMAIN attempts : attempts[k].outcome # "error" /\ attempts[k].db # "failed"

C5_Original_StopsAtFirstOpen ==
    /\ Len(attempts) <= 1 + Len(password_candidates)
    /\ \A k \in DOMAIN attempts :
          /\ attempts[k].position = k - 1
          /\ k >= 2 =>
                attempts[k].password = PyStr(PasswordOf(variant, password_candidates[k - 1]))
    /\ \A k \in DOMAIN attempts :
          attempts[k].outcome = "opened" =>
              k = Len(attempts) /\ Returned /\ result = "success"

\* a candidate opened the document and the next candidate was attempted
C5_Witness ==
    \E k \in DOMAIN attempts :
        /\ k >= 2
        /\ k < Len(attempts)
        /\ attempts[k].outcome = "opened"
        /\ attempts[k + 1].position = k

\* C6: the first attempt of every call is the passwordless one; when it opens the
\* document the call returns success at once: no candidate is attempted and no
\* tested/works flag changes.
C6_PasswordlessAttemptFirst ==
    /\ pc = "loop" => attempts # << >>
    /\ attempts # << >> =>
          /\ attempts[1].position = 0
          /\ attempts[1].password = << >>
          /\ \A k \in DOMAIN attempts : k >= 2 => attempts[k].position >= 1
    /\ attempts # << >> /\ attempts[1].outcome = "opened" =>
          /\ Returned
          /\ result = "success"
          /\ working = None
          /\ Len(attempts) = 1
          /\ table = table_at_call

\* an unencrypted second attachment, after the saved candidates were tried on the
\* first one
C6_Witness ==
    /\ Returned
    /\ variant = "enhanced"
    /\ ~CurrentDoc.protected
    /\ result = "success"
    /\ password_candidates # << >>
    /\ \E p \in DOMAIN table : table[p].tested

\* C7: a call in which nothing opened the document returns not-found; no
\* exception reaches the caller, whatever the collaborators raise.
C7_Original_NotFoundNeverRaises ==
    Returned /\ (\A k \in DOMAIN attempts : attempts[k].outcome # "opened") =>
        result = "not_found"

\* an error of the decryption collaborator, not a wrong-password error, left the
\* call as an exception
C7_Witness ==
    /\ Returned
    /\ result = "raised"
    /\ \A k \in DOMAIN attempts : attempts[k].outcome \in { "wrong", "error" }
    /\ \A k \in DOMAIN attempts : attempts[k].db # "failed"

\* C8: after a wrong-password error, or any other error of the attempt, the scan
\* goes on: a call does not end at such an attempt while candidates are left.
C8_Original_ErrorsAreSkipped ==
    Returned /\ Len(attempts) >= 2
             /\ attempts[Len(attempts)].outcome \in { "wrong", "error" }
             /\ attempts[Len(attempts)].db # "failed" =>
        /\ Len(attempts) = 1 + Len(password_candidates)
        /\ result = "not_found"

\* the call ended at a candidate whose attempt raised another error, with
\* candidates left untried
C8_Witness ==
    /\ Returned
    /\ result = "raised"
    /\ Len(attempts) >= 2
    /\ Len(attempts) <= Len(password_candidates)
    /\ attempts[Len(attempts)].outcome = "error"

\* the enhanced verifier opened the document with the candidate at position
\* Len(attempts) - 1
OpenedWithCandidate ==
    /\ Returned
    /\ variant = "enhanced"
    /\ result = "success"
    /\ Len(attempts) >= 2

PasswordAt(i) == password_candidates[i].password

\* C9: the working candidate is recorded with works = true, every candidate
\* tried before it is recorded tested with works = false, the candidates after
\* it keep their flags and no other candidate is recorded as working by the
\* call.
C9_Original_AllEarlierRecorded ==
    OpenedWithCandidate =>
        LET n == Len(attempts) - 1
        IN  /\ DOMAIN table = CandidatePasswords
            /\ table[PasswordAt(n)] = [ tested |-> TRUE, works |-> TRUE ]
            /\ \A i \in 1..(n - 1) :
                  table[PasswordAt(i)] = [ tested |-> TRUE, works |-> FALSE ]
            /\ \A i \in (n + 1)..Len(password_candidates) :
                  table[PasswordAt(i)] = table_at_call[PasswordAt(i)]
            /\ \A p \in DOMAIN table \ { PasswordAt(n) } :
                  table[p].works => table_at_call[p].works

\* the document was opened with a candidate of an email that has no candidate
\* rows: nothing records the working password
C9_Witness ==
    /\ OpenedWithCandidate
    /\ table = NoTable
    /\ attempts[Len(attempts)].outcome = "opened"
    /\ attempts[Len(attempts)].db = "ok"

\* C21: a failure of the persistence layer propagates to the caller at every
\* write: an attempt during which mark_password_result failed, after a wrong
\* password as after a password that worked, is the last attempt of the call and
\* the call leaves with the exception.
C21_Original_PersistenceFailurePropagates ==
    \A k \in DOMAIN attempts :
        attempts[k].db = "failed" =>
            /\ k = Len(attempts)
            /\ Returned
            /\ result = "raised"

\* the write that records a working password failed, the verifier went on to
\* the next candidate and returned without an exception
C21_Witness ==
    /\ Returned
    /\ variant = "enhanced"
    /\ result \in { "success", "not_found" }
    /\ \E k \in DOMAIN attempts :
          /\ attempts[k].outcome = "opened"
          /\ attempts[k].db = "failed"
          /\ k < Len(attempts)

\* C30: during unlock_pdfs a candidate recorded as works = true stays recorded
\* as works = true: no later attempt, on this or another attachment of the
\* email, sets it back to works = false.
C30_Original_WorkingStaysWorking ==
    [][\A p \in DOMAIN table : table[p].works => table'[p].works]_vars

\* a candidate that was recorded as working when the call for the next
\* attachment began was tried on that attachment, rejected and recorded as not
\* working
C30_Witness ==
    /\ variant = "enhanced"
    /\ \E p \in DOMAIN table :
          /\ table_at_call[p].works
          /\ table[p] = [ tested |-> TRUE, works |-> FALSE ]
          /\ ~Opens(CurrentDoc, p)
          /\ \E k \in DOMAIN attempts :
                attempts[k].password = p /\ attempts[k].outcome = "wrong"

\* PDFUnlocker.unlock_and_save: None when try_unlock_pdf returned no document,
\* else the path the document was saved to
unlock_and_save(outcome) == IF outcome = "success" THEN "output_path" ELSE "None"

\* the passwordless attempt or some password of password_list opens the PDF
SomethingOpens ==
    \/ Opens(CurrentDoc, << >>)
    \/ \E p \in CandidatePasswords : Opens(CurrentDoc, p)

\* C25: unlock_and_save returns an output path exactly when the PDF opens
\* without a password or with some password of password_list, and returns None
\* otherwise, never raising: no PDF of a batch stops the PDFs after it from
\* being tried.
C25_Original_PathOrNoneNeverRaises ==
    Returned /\ variant = "unlocker" =>
        /\ result # "raised"
        /\ unlock_and_save(result) = "output_path" <=> SomethingOpens

\* an exception of pikepdf other than PasswordError left unlock_and_save while
\* PDFs of the batch were still untried
C25_Witness ==
    /\ Returned
    /\ variant = "unlocker"
    /\ result = "raised"
    /\ attempts[Len(attempts)].outcome = "error"
    /\ Len(attachments) > 1

-----------------------------------------------------------------------------
(* Claims about the rule-based generator, checked on the calls of Spec *)

\* the call reached the rule-based step
RuleBasedRan == pc \in { "generated", "raised" } /\ ReachesSteps(emails)

\* the rule-based candidates of one source, in the order they were appended
OfSource(source) == SelectSeq(rule_candidates, LAMBDA c : c.source = source)

StepOf(source) ==
    CASE source = "direct_hint" -> 1
      [] source = "birth_date" -> 2
      [] source = "card_number" -> 3
      [] source = "account_number" -> 4
      [] source = "email_date" -> 5
      [] source = "mobile_number" -> 6
      [] source = "name_card_combo" -> 7
      [] OTHER -> 0

\* the candidates of a source are exactly the given values, in that order, each
\* at the given confidence
StepIs(source, values, confidence) ==
    /\ Len(OfSource(source)) = Len(values)
    /\ \A i \in DOMAIN values :
          /\ OfSource(source)[i].password = values[i]
          /\ OfSource(source)[i].confidence = confidence

\* C13: generate_rule_based_passwords returns exactly the candidates of steps
\* 1-7, in that order: hints of length >= 4 at 9; birth_date facts without "/"
\* and "-" at 7; card fragments at 8; account fragments at 7; context dates
\* without separators, of length >= 6, at 6; the last 4 characters of
\* mobile_number facts at 6; lowercase(first_name) + card for every pair at 5;
\* and nothing else.
C13_RuleBasedStepsExactly ==
    RuleBasedRan =>
        LET hints == emails.password_hints
            births == PersonalValues(personal_data, "birth_date")
            cards == emails.email_body.cards
            accounts == emails.email_body.accounts
            dates == emails.email_body.dates
            mobiles == PersonalValues(personal_data, "mobile_number")
            names == PersonalValues(personal_data, "first_name")
            clean == [ i \in DOMAIN dates |-> StripSeparators(dates[i]) ]
        IN  /\ \A i \in DOMAIN rule_candidates : StepOf(rule_candidates[i].source) # 0
            /\ \A i, j \in DOMAIN rule_candidates :
                  i < j => StepOf(rule_candidates[i].source) <= StepOf(rule_candidates[j].source)
            /\ StepIs("direct_hint", SelectSeq(hints, LAMBDA h : Len(h) >= 4), 9)
            /\ StepIs("birth_date", [ i \in DOMAIN births |-> StripSeparators(births[i]) ], 7)
            /\ StepIs("card_number", cards, 8)
            /\ StepIs("account_number", accounts, 7)
            /\ StepIs("email_date", SelectSeq(clean, LAMBDA d : Len(d) >= 6), 6)
            /\ StepIs("mobile_number", [ i \in DOMAIN mobiles |-> Last4(mobiles[i]) ], 6)
            /\ StepIs("name_card_combo",
                      [ k \in 1..(Len(names) * Len(cards)) |->
                          Lower(names[((k - 1) \div Len(cards)) + 1])
                              \o cards[((k - 1) % Len(cards)) + 1] ],
                      5)

\* all seven steps produced candidates, two cards among them, and a mobile number
\* shorter than 4 was taken whole
C13_Witness ==
    /\ RuleBasedRan
    /\ { rule_candidates[i].source : i \in DOMAIN rule_candidates }
           = { "direct_hint", "birth_date", "card_number", "account_number",
               "email_date", "mobile_number", "name_card_combo" }
    /\ Len(OfSource("name_card_combo")) = 2
    /\ \E i \in DOMAIN rule_candidates : rule_candidates[i].password = sMobileShort

\* the email is unknown, or its row has an empty or NULL body or sender and no
\* hints and rules, and there are no personal facts
AbsentInput ==
    \/ ~emails.stored
    \/ emails \in AbsentRows /\ personal_data = NoPersonalData

\* C17: absent input never raises and yields empty results: candidate generation
\* for an unknown email id, or for an email with an empty or missing body or
\* sender and no hints, rules or personal facts, returns an empty list without
\* raising (the extractor's half of the claim is ExtractorEmptyOnAbsentText).
C17_Original_AbsentInputEmptyNoRaise ==
    (pc \in { "generated", "raised" } /\ AbsentInput) =>
        (pc = "generated" /\ candidates = << >>)

\* the row of the email holds NULL for its body, and the call raised before it
\* reached the LLM step or the rule-based step
C17_Witness ==
    /\ pc = "raised"
    /\ emails.stored
    /\ emails.email_body = NullBody
    /\ emails.password_hints = << >>
    /\ personal_data = NoPersonalData
    /\ llm_outcome = NoOutcome

\* C19: every PasswordCandidate produced by candidate generation, the ones taken
\* from the LLM reply with the confidence the model reported included, has a
\* confidence in the range [0,10].
C19_Original_ConfidenceInRange ==
    \A cs \in { candidates, llm_candidates, rule_candidates } :
        \A i \in DOMAIN cs : cs[i].confidence >= 0 /\ cs[i].confidence <= 10

\* the reply reported a confidence of 11 and the candidate was returned with it,
\* ranked before the direct hints
C19_Witness ==
    /\ Generated
    /\ \E i \in DOMAIN candidates :
           /\ candidates[i].source = "llm"
           /\ candidates[i].confidence = 11
           /\ \E j \in DOMAIN candidates : i < j /\ candidates[j].source = "direct_hint"

-----------------------------------------------------------------------------
(* Specification of the statement scenario: generate_passwords_for_email on the
   rows process_new_statements stores for texts that name the card 1234 *)

\* "Your statement password is the last 4 digits of your card ending 1234
\* followed by your birth year 1990."
ScenarioText ==
    << "Y", "o", "u", "r", " ", "s", "t", "a", "t", "e", "m", "e", "n",
       "t", " ", "p", "a", "s", "s", "w", "o", "r", "d", " ", "i", "s",
       " ", "t", "h", "e", " ", "l", "a", "s", "t", " ", "4", " ", "d",
       "i", "g", "i", "t", "s", " ", "o", "f", " ", "y", "o", "u", "r",
       " ", "c", "a", "r", "d", " ", "e", "n", "d", "i", "n", "g", " ",
       "1", "2", "3", "4", " ", "f", "o", "l", "l", "o", "w", "e", "d",
       " ", "b", "y", " ", "y", "o", "u", "r", " ", "b", "i", "r", "t",
       "h", " ", "y", "e", "a", "r", " ", "1", "9", "9", "0", "." >>

\* "Statement for card 12345678.": the card pattern finds 1234, the hint
\* patterns do not
CardOnlyText ==
    << "S", "t", "a", "t", "e", "m", "e", "n", "t", " ", "f", "o", "r",
       " ", "c", "a", "r", "d", " ", "1", "2", "3", "4", "5", "6", "7",
       "8", "." >>

sBirthDate == << "0", "1", "0", "1", "1", "9", "9", "0" >>

\* the rows store_email_metadata writes for a text: json.dumps of the lists the
\* extractor returned, in whatever order list(set(...)) gave them
RowsStoredFor(text, sd) ==
    { [ stored |-> TRUE, email_body |-> BodyOf(text), sender |-> sd, subject |-> "statement",
        password_hints |-> hs, password_rules |-> rs ] :
          hs \in ListsOf(extract_password_rules_and_hints(text).hints),
          rs \in ListsOf(extract_password_rules_and_hints(text).rules) }

ScenarioRows == RowsStoredFor(ScenarioText, sSender)

CardOnlyRows == RowsStoredFor(CardOnlyText, sSender)

ScenarioFacts ==
    { "birth_date" :> << sBirthDate >>,
      "birth_date" :> << sBirthDate >> @@ "mobile_number" :> << sMobile >>
          @@ "first_name" :> << sName >> }

InitScenario ==
    /\ ClientIdle
    /\ emails \in ScenarioRows \cup CardOnlyRows
    /\ personal_data \in ScenarioFacts
    /\ llm_manager \in { "none", "ollama" }
    /\ llm_outcome = NoOutcome
    /\ candidates = << >>
    /\ llm_candidates = << >>
    /\ rule_candidates = << >>
    /\ pc = "idle"
    /\ VerifierIdle
    /\ TextIdle

SpecScenario == InitScenario /\ [][Next]_vars

\* positions of the returned list that hold the value
PositionsOf(password) == { i \in DOMAIN candidates : candidates[i].password = password }

Has(password, source, confidence) ==
    \E i \in PositionsOf(password) :
        candidates[i].source = source /\ candidates[i].confidence = confidence

\* every candidate holding the first value stands before every candidate of the
\* second source
RanksBefore(password, source) ==
    \A i \in PositionsOf(password), j \in DOMAIN candidates :
        candidates[j].source = source => i < j

ShadowsCard ==
    \/ s1234 \in Range(emails.password_hints)
    \/ \E i \in DOMAIN llm_candidates :
           llm_candidates[i].password = s1234 /\ llm_candidates[i].confidence >= 8

-----------------------------------------------------------------------------
(* Specification of the cap: generate_passwords_for_email on rows whose hints
   alone come close to, reach or exceed the twenty candidates returned *)

DigitOf(n) == << "0", "1", "2", "3", "4", "5", "6", "7", "8", "9" >>[n + 1]

\* that many different hints, each of four characters
ManyHints(n) == [ k \in 1..n |-> << "h", "x", DigitOf(k \div 10), DigitOf(k % 10) >> ]

CapBodies ==
    { [ cards |-> cs, accounts |-> as, dates |-> << >>, banks |-> {}, null |-> FALSE ] :
          cs \in { << >>, << s1234, s5678 >> }, as \in { << >>, << s1234 >> } }

CapRows ==
    { [ stored |-> TRUE, email_body |-> b, sender |-> sSender, subject |-> "statement",
        password_hints |-> ManyHints(n), password_rules |-> << >> ] :
          b \in CapBodies, n \in (TopCandidates - 3)..MaxManyHints }

InitCap ==
    /\ ClientIdle
    /\ emails \in CapRows
    /\ personal_data \in PersonalTables
    /\ llm_manager \in { "none", "ollama" }
    /\ llm_outcome = NoOutcome
    /\ candidates = << >>
    /\ llm_candidates = << >>
    /\ rule_candidates = << >>
    /\ pc = "idle"
    /\ VerifierIdle
    /\ TextIdle

SpecCap == InitCap /\ [][Next]_vars

ReturnedValues == { candidates[i].password : i \in DOMAIN candidates }

MergedValues == { Merged[i].password : i \in DOMAIN Merged }

-----------------------------------------------------------------------------
(* Specification of hint extraction: extract_password_rules_and_hints on texts
   that hold a "password: XXXX" token *)

TokenChars == { "a", "7", "!" }

\* a token longer than the twenty characters the hint pattern takes
LongToken == [ i \in 1..(MaxHintLen + 1) |-> "a" ]

Tokens == (SeqsUpTo(TokenChars, MaxToken) \ { << >> }) \cup { LongToken }

\* what follows the token: the end of the text, a space, the full stop of the
\* sentence, a line break
Followers == { << >>, << " " >>, << "." >>, << "\n" >> }

sPasswordColon == sPassword \o << ":", " " >>

TokenText(token, follower) == sPasswordColon \o token \o follower

TokenTexts == { TokenText(token, follower) : token \in Tokens, follower \in Followers }

InitExtract ==
    /\ ClientIdle
    /\ emails = NoRow
    /\ personal_data = NoPersonalData
    /\ llm_manager = "none"
    /\ llm_outcome = NoOutcome
    /\ candidates = << >>
    /\ llm_candidates = << >>
    /\ rule_candidates = << >>
    /\ pc = "idle"
    /\ VerifierIdle
    /\ llm_response = << >>
    /\ msg_body \in TokenTexts \cup { << >>, None }
    /\ msg_sender = sSender
    /\ found_hints = << >>
    /\ found_rules = << >>
    /\ context = NoContext

ExtractPasswordRulesAndHints ==
    /\ pc = "idle"
    /\ LET found == extract_password_rules_and_hints(msg_body)
       IN  /\ found_hints' \in ListsOf(found.hints)
           /\ found_rules' \in ListsOf(found.rules)
    /\ pc' = "extracted"
    /\ UNCHANGED << llm_response, msg_body, msg_sender, context >>
    /\ UNCHANGED genVars
    /\ UNCHANGED verVars
    /\ UNCHANGED clientVars

NextExtract == ExtractPasswordRulesAndHints

SpecExtract == InitExtract /\ [][NextExtract]_vars

\* C15: for every text holding a literal "password: XXXX" token, the hint list
\* returned by extract_password_rules_and_hints contains XXXX itself, whatever
\* the token's length and characters and whatever follows it.
C15_Original_HintsContainToken ==
    pc = "extracted" =>
        \A token \in Tokens, follower \in Followers :
            msg_body = TokenText(token, follower) => token \in Range(found_hints)

\* a token of four letters and digits that ends the text is returned as a hint
C15_Witness ==
    /\ pc = "extracted"
    /\ msg_body = TokenText(<< "a", "7", "a", "7" >>, << >>)
    /\ << "a", "7", "a", "7" >> \in Range(found_hints)

\* the extractor returns two empty lists for a text that is empty or missing
ExtractorEmptyOnAbsentText ==
    (pc = "extracted" /\ msg_body \in { << >>, None }) =>
        (found_hints = << >> /\ found_rules = << >>)

-----------------------------------------------------------------------------
(* Specification of context extraction: extract_bank_context on a body and a
   sender that name banks *)

SenderTexts ==
    { << >>, sSender, << "a", "l", "e", "r", "t", "s", "@", "h", "s", "b", "c", ".", "a", "e" >>, << "F", "A", "B" >>, << "c", "i", "t", "i" >>, << "a", "d", "i", "b" >>, << "r", "a", "k", "b", "a", "n", "k" >>, << "s", "c", "@", "n", "b", "f" >>,
      << "M", "a", "s", "h", "r", "e", "q" >> }

BankBodyTexts ==
    { << >>, << "y", "o", "u", "r", " ", "f", "a", "b", " ", "c", "a", "r", "d", " ", "1", "2", "3", "4" >>, << "H", "S", "B", "C", " ", "s", "t", "a", "t", "e", "m", "e", "n", "t" >>, << "d", "i", "b", " ", "a", "/", "c", " ", "1", "2", "3", "4", "5", "6" >>, << "e", "n", "b", "d", " ", "0", "1", "/", "0", "2", "/", "2", "0", "2", "4" >>,
      << "s", "t", "a", "t", "e", "m", "e", "n", "t" >>, << "S", "t", "a", "n", "d", "a", "r", "d", " ", "C", "h", "a", "r", "t", "e", "r", "e", "d" >>, << "a", "d", "c", "b", " ", "a", "n", "d", " ", "h", "s", "b", "c" >>,
      << "c", "i", "t", "i", " ", "c", "a", "r", "d", " ", "e", "n", "d", "i", "n", "g", " ", "5", "6", "7", "8" >> }

InitContext ==
    /\ ClientIdle
    /\ emails = NoRow
    /\ personal_data = NoPersonalData
    /\ llm_manager = "none"
    /\ llm_outcome = NoOutcome
    /\ candidates = << >>
    /\ llm_candidates = << >>
    /\ rule_candidates = << >>
    /\ pc = "idle"
    /\ VerifierIdle
    /\ llm_response = << >>
    /\ msg_body \in BankBodyTexts
    /\ msg_sender \in SenderTexts
    /\ found_hints = << >>
    /\ found_rules = << >>
    /\ context = NoContext

\* a call of extract_bank_context on the text and the sender, and a second call
\* on the same arguments
ExtractBankContext ==
    /\ pc \in { "idle", "context" }
    /\ context' = extract_bank_context(BodyOf(msg_body), msg_sender)
    /\ pc' = IF pc = "idle" THEN "context" ELSE "again"
    /\ UNCHANGED << llm_response, msg_body, msg_sender, found_hints, found_rules >>
    /\ UNCHANGED genVars
    /\ UNCHANGED verVars
    /\ UNCHANGED clientVars

NextContext == ExtractBankContext

SpecContext == InitContext /\ [][NextContext]_vars

\* the first table entry whose pattern matches the text, "unknown" when none does
FirstBankOf(text) ==
    IF BanksFound(text) = {} THEN "unknown" ELSE bank_patterns[Min(BanksFound(text))].bank

\* C16: bank identification checks the sender first and falls back to the body:
\* when some pattern matches the sender the bank is the first table entry that
\* matches the sender, whatever the body holds; only when none matches the sender
\* is the first entry matching the body used; otherwise the bank is "unknown".
C16_Original_SenderFirst ==
    pc = "context" =>
        context.bank = IF BanksFound(msg_sender) # {} THEN FirstBankOf(msg_sender)
                       ELSE FirstBankOf(msg_body)

\* the sender names hsbc, the body names fab, an earlier table entry, and the
\* body's bank was returned
C16_Witness ==
    /\ pc = "context"
    /\ FirstBankOf(msg_sender) = "hsbc"
    /\ FirstBankOf(msg_body) = "fab"
    /\ context.bank = "fab"

\* everything but the dict returned and the position of the caller
contextFrame ==
    << genVars, verVars, clientVars, llm_response, msg_body, msg_sender, found_hints,
       found_rules >>

-----------------------------------------------------------------------------
(* Specification of the pipeline: process_new_statements on one message, then
   unlock_pdfs on the row it stored *)

\* the bodies get_email_body returns: nothing, a direct hint, a card number
PipelineTexts == { << >>, TokenText(<< "a", "7", "a", "7" >>, << >>), CardOnlyText }

PipelineDocs ==
    { << d >> : d \in { Unprotected, [ protected |-> TRUE, password |-> s1234 ] } }
        \cup { << [ protected |-> TRUE, password |-> s1234 ], Unprotected >> }

\* what the backend does in one call: it fails, or it answers with one entry
PipelineOutcomes ==
    { [ status |-> "timeout", text |-> EmptyResponse ],
      [ status |-> "ok", text |-> ResponseText("json", << LLMEntry(s1234, ConfNum(8)) >>) ],
      [ status |-> "ok", text |-> ResponseText("json", << LLMEntry(sListPwd, ConfNum(8)) >>) ] }

OutcomesIn(row, manager) ==
    IF manager = "none" \/ ~ReachesSteps(row) THEN { NoOutcome } ELSE PipelineOutcomes

\* one call of generate_passwords_for_email: the list it returns, or the
\* exception it leaves with
Call(row, personal, manager, outcome) ==
    IF generate_passwords_for_email_raises(row, personal, manager, outcome)
    THEN [ raised |-> TRUE, list |-> << >> ]
    ELSE [ raised |-> FALSE,
           list |-> generate_passwords_for_email(row, personal, manager, outcome) ]

InitPipeline ==
    /\ ClientIdle
    /\ emails = NoRow
    /\ personal_data \in { NoPersonalData, "birth_date" :> << sBirthDate >> }
    /\ llm_manager \in { "none", "ollama" }
    /\ llm_outcome = NoOutcome
    /\ candidates = << >>
    /\ llm_candidates = << >>
    /\ rule_candidates = << >>
    /\ pc = "idle"
    /\ variant = "enhanced"
    /\ password_candidates = << >>
    /\ attachments \in PipelineDocs
    /\ table = NoTable
    /\ table_at_call = NoTable
    /\ idx = 0
    /\ attempts = << >>
    /\ result = "none"
    /\ working = None
    /\ llm_response = << >>
    /\ msg_body \in PipelineTexts
    /\ msg_sender = sSender
    /\ found_hints = << >>
    /\ found_rules = << >>
    /\ context = NoContext

\* process_new_statements for the message: the hints and rules are extracted,
\* the row is stored, and when there are hints or rules the candidates are
\* generated and, when there are any, saved; an exception of the generation is
\* logged by the handler of the message
ProcessNewStatements ==
    /\ pc = "idle"
    /\ \E hs \in ListsOf(extract_password_rules_and_hints(msg_body).hints),
          rs \in ListsOf(extract_password_rules_and_hints(msg_body).rules) :
          LET row == [ stored |-> TRUE, email_body |-> BodyOf(msg_body),
                       sender |-> msg_sender, subject |-> "statement",
                       password_hints |-> hs, password_rules |-> rs ]
              generates == hs # << >> \/ rs # << >>
          IN  /\ found_hints' = hs
              /\ found_rules' = rs
              /\ emails' = row
              /\ \E outcome \in (IF generates THEN OutcomesIn(row, llm_manager)
                                 ELSE { NoOutcome }) :
                    LET call == Call(row, personal_data, llm_manager, outcome)
                    IN  /\ llm_outcome' = outcome
                        /\ candidates' = IF generates THEN call.list ELSE << >>
                        /\ table' = IF generates /\ call.list # << >>
                                    THEN save_password_candidates(call.list) ELSE table
    /\ pc' = "processed"
    /\ UNCHANGED << personal_data, llm_manager, llm_candidates, rule_candidates >>
    /\ UNCHANGED << variant, password_candidates, attachments, table_at_call, idx,
                    attempts, result, working >>
    /\ UNCHANGED << llm_response, msg_body, msg_sender, context >>
    /\ UNCHANGED clientVars

\* PasswordCandidate(password=pwd, confidence=5.0, source='fallback',
\*                   reasoning='Basic generation') for pwd in basic_candidates
FallbackCandidates(basic_candidates) ==
    [ i \in DOMAIN basic_candidates |->
          PasswordCandidate(basic_candidates[i], 5, "fallback", << "Basic generation" >>) ]

\* generate_password_candidates(hints, rules, personal_data, email_body, sender,
\* email_id) with an email_id: the passwords of another call of
\* generate_passwords_for_email
generate_password_candidates(call) == [ i \in DOMAIN call.list |-> call.list[i].password ]

\* unlock_pdfs for the row, up to the loop over its attachments: the candidates
\* are generated, generated once more through generate_password_candidates when
\* the first call returned none, saved, and handed to the verifier; no exception
\* is caught
UnlockPdfs ==
    /\ pc = "processed"
    /\ \E first \in OutcomesIn(emails, llm_manager), second \in OutcomesIn(emails, llm_manager) :
          LET call == Call(emails, personal_data, llm_manager, first)
              again == Call(emails, personal_data, llm_manager, second)
              fallback == ~call.raised /\ call.list = << >>
              raised == call.raised \/ (fallback /\ again.raised)
              handed == IF fallback
                        THEN FallbackCandidates(generate_password_candidates(again))
                        ELSE call.list
          IN  /\ fallback \/ second = first
              /\ llm_outcome' = IF fallback THEN second ELSE first
              /\ candidates' = IF raised THEN candidates
                               ELSE IF fallback THEN again.list ELSE call.list
              /\ password_candidates' = IF raised THEN << >> ELSE handed
              /\ table' = IF raised THEN table ELSE save_password_candidates(handed)
              /\ pc' = IF raised THEN "raised" ELSE "call"
    /\ UNCHANGED << emails, personal_data, llm_manager, llm_candidates, rule_candidates >>
    /\ UNCHANGED << variant, attachments, table_at_call, idx, attempts, result, working >>
    /\ UNCHANGED txtVars
    /\ UNCHANGED clientVars

NextPipeline == ProcessNewStatements \/ UnlockPdfs \/ NextVerifier

SpecPipeline == InitPipeline /\ [][NextPipeline]_vars

Sources ==
    { "direct_hint", "birth_date", "card_number", "account_number", "email_date",
      "mobile_number", "name_card_combo", "llm" }

\* C20: every PasswordCandidate that is saved or handed to the verifier has a
\* source of the enumeration, on every path of unlock_pdfs and
\* process_new_statements and for every sequence of LLM replies (the list
\* process_new_statements saves is candidates, the list unlock_pdfs saves and
\* hands to the verifier is password_candidates).
C20_Original_SourcesOfEnumeration ==
    /\ \A i \in DOMAIN candidates : candidates[i].source \in Sources
    /\ \A i \in DOMAIN password_candidates : password_candidates[i].source \in Sources

\* the backend failed in the first call and answered in the second: the
\* password of its answer was saved and tried on the document as a candidate of
\* source 'fallback'
C20_Witness ==
    /\ pc = "returned"
    /\ password_candidates # << >>
    /\ \A i \in DOMAIN password_candidates :
           /\ password_candidates[i].source = "fallback"
           /\ password_candidates[i].confidence = 5
           /\ password_candidates[i].password \in DOMAIN table
    /\ \E k \in DOMAIN attempts : attempts[k].password = password_candidates[1].password

\* unlock_pdfs saved a list and handed it to the verifier
HandedToVerifier == pc \in { "call", "loop", "returned" } /\ emails.stored

\* C26: when generate_passwords_for_email yields no candidates, unlock_pdfs uses
\* the candidates of the basic generator, which always include the date-based
\* passwords of the last 12 months: the list saved and tried is never empty.
C26_Original_FallbackListNonEmpty ==
    HandedToVerifier => password_candidates # << >> /\ table # NoTable

\* the enhanced generator returned nothing for the row, the fallback asked it
\* again, and the verifier was called on an encrypted PDF with an empty list
C26_Witness ==
    /\ HandedToVerifier
    /\ pc = "returned"
    /\ candidates = << >>
    /\ password_candidates = << >>
    /\ table = NoTable
    /\ CurrentDoc.protected
    /\ result = "not_found"
    /\ Len(attempts) = 1

-----------------------------------------------------------------------------
(* Specification of reply parsing: parse_llm_response on every text *)

InitParse ==
    /\ ClientIdle
    /\ emails = NoRow
    /\ personal_data = NoPersonalData
    /\ llm_manager = "ollama"
    /\ llm_outcome = NoOutcome
    /\ candidates = << >>
    /\ llm_candidates = << >>
    /\ rule_candidates = << >>
    /\ pc = "idle"
    /\ VerifierIdle
    /\ llm_response \in ReplyTexts
    /\ ExtractIdle

ParseLLMResponse ==
    /\ pc = "idle"
    /\ llm_candidates' = parse_llm_response_text(llm_response)
    /\ pc' = "parsed"
    /\ UNCHANGED << emails, personal_data, llm_manager, llm_outcome, candidates,
                    rule_candidates >>
    /\ UNCHANGED verVars
    /\ UNCHANGED txtVars
    /\ UNCHANGED clientVars

NextParse == ParseLLMResponse

SpecParse == InitParse /\ [][NextParse]_vars

\* index of the "}" that closes the brace opened before position i, depth braces
\* being open at i; 0 when there is none
RECURSIVE MatchingClose(_, _, _)
MatchingClose(text, i, depth) ==
    IF i > Len(text) THEN 0
    ELSE IF text[i] = "{" THEN MatchingClose(text, i + 1, depth + 1)
    ELSE IF text[i] = "}"
         THEN IF depth = 1 THEN i ELSE MatchingClose(text, i + 1, depth - 1)
    ELSE MatchingClose(text, i + 1, depth)

\* the first balanced {...} substring of the text, None when there is none
FirstBalanced(text) ==
    LET starts == { i \in DOMAIN text : text[i] = "{" /\ MatchingClose(text, i + 1, 1) # 0 }
    IN  IF starts = {} THEN None
        ELSE SubSeq(text, Min(starts), MatchingClose(text, Min(starts) + 1, 1))

\* the candidates of the first balanced substring: one per entry when it decodes,
\* none otherwise
CandidatesOfFirstBalanced(text) ==
    LET first == FirstBalanced(text)
    IN  IF first = None THEN << >>
        ELSE LET data == json_loads(first)
             IN  IF data.ok THEN parse_llm_response(ResponseText("json", data.passwords))
                 ELSE << >>

\* C12: parse_llm_response decodes the first balanced {...} substring of the
\* reply: a valid passwords object surrounded by prose, which may hold braces
\* or a second object, yields one llm candidate per entry of that first object;
\* truncated JSON and text without an object yield the empty list.
C12_Original_FirstBalancedObject ==
    pc = "parsed" => llm_candidates = CandidatesOfFirstBalanced(llm_response)

\* a valid object followed by prose that ends in a closing brace: nothing parsed
C12_Witness ==
    /\ pc = "parsed"
    /\ llm_response = ObjOne \o << "p" >> \o << "}" >>
    /\ FirstBalanced(llm_response) = ObjOne
    /\ llm_candidates = << >>

-----------------------------------------------------------------------------
(* EnhancedGmailClient.process_new_statements over a mailbox, run after run *)

MaxMessages == 2

MaxRuns == 2

\* the texts of the messages: one without hints and rules, one with a hint
BatchTexts == { << >>, TokenText(<< "a", "7", "a", "7" >>, << >>) }

\* the messages of the mail provider: Gmail ids are distinct
Mailboxes ==
    UNION { [ 1..n -> { [ id |-> i, body |-> b ] : i \in 1..MaxMessages, b \in BatchTexts } ] :
                n \in 1..MaxMessages }

DistinctIds(ms) == \A i, j \in DOMAIN ms : ms[i].id = ms[j].id => i = j

InitBatch ==
    /\ emails = NoRow
    /\ personal_data = NoPersonalData
    /\ llm_manager \in { "none", "ollama" }
    /\ llm_outcome = NoOutcome
    /\ candidates = << >>
    /\ llm_candidates = << >>
    /\ rule_candidates = << >>
    /\ pc = "idle"
    /\ VerifierIdle
    /\ TextIdle
    /\ mailbox \in { ms \in Mailboxes : DistinctIds(ms) /\ \A i \in DOMAIN ms : ms[i].id <= Len(ms) }
    /\ messages = << >>
    /\ email_ids = {}
    /\ processed_count = 0
    /\ run_log = << >>
    /\ returned = None
    /\ runs = 0
    /\ successful_password = None

\* what the run did with one message
Entry(message, event) == [ run |-> runs + 1, id |-> message.id, event |-> event ]

\* messages = self.search_credit_card_emails(months_back): the messages of the
\* mailbox, or [] after an HttpError; `if not messages: return 0`
SearchCreditCardEmails ==
    /\ pc = "idle"
    /\ runs < MaxRuns
    /\ \E found \in { mailbox, << >> } :
          /\ messages' = found
          /\ pc' = IF found = << >> THEN "idle" ELSE "batch"
          /\ returned' = IF found = << >> THEN 0 ELSE None
          /\ runs' = IF found = << >> THEN runs + 1 ELSE runs
    /\ processed_count' = 0
    /\ UNCHANGED << mailbox, email_ids, run_log, successful_password >>
    /\ UNCHANGED genVars
    /\ UNCHANGED verVars
    /\ UNCHANGED txtVars

\* is_already_processed: SELECT id FROM emails WHERE id = ?
is_already_processed(msg_id) == msg_id \in email_ids

\* How the body of the per-message try block can end for a message that is not
\* stored yet.  fetch is what the mail provider does (get_message_details
\* returns None after an HttpError; another exception leaves the download), db
\* what the database does at store_email_metadata, call the
\* generate_passwords_for_email of the stored row.
EventOf(fetch, db, generates, call) ==
    CASE fetch = "no_details" -> "no_details"
      [] fetch = "error" -> "fetch_failed"
      [] db = "failed" -> "store_failed"
      [] generates /\ call.raised -> "generate_failed"
      [] OTHER -> "processed"

\* the events after which the row of the message is in the emails table
StoredEvents == { "generate_failed", "processed" }

\* the events in which download_pdf_attachments wrote the attachments
DownloadEvents == { "store_failed", "generate_failed", "processed" }

\* one iteration of `for message in messages` on a message that is already
\* stored: continue
SkipProcessed ==
    /\ pc = "batch"
    /\ messages # << >>
    /\ is_already_processed(Head(messages).id)
    /\ messages' = Tail(messages)
    /\ run_log' = Append(run_log, Entry(Head(messages), "already"))
    /\ UNCHANGED << mailbox, email_ids, processed_count, returned, runs, successful_password >>
    /\ UNCHANGED << pc >>
    /\ UNCHANGED genVars
    /\ UNCHANGED verVars
    /\ UNCHANGED txtVars

\* one iteration of `for message in messages` on a new message: the try block
\* with its `except Exception`, which logs and continues
ProcessMessage ==
    /\ pc = "batch"
    /\ messages # << >>
    /\ ~is_already_processed(Head(messages).id)
    /\ LET message == Head(messages)
       IN  \E fetch \in { "ok", "no_details", "error" }, db \in { "ok", "failed" },
              row \in RowsStoredFor(message.body, sSender) :
           \E outcome \in OutcomesIn(row, llm_manager) :
              LET generates == row.password_hints # << >> \/ row.password_rules # << >>
                  call == Call(row, personal_data, llm_manager, outcome)
                  event == EventOf(fetch, db, generates, call)
                  stored == event \in StoredEvents
                  saved == event = "processed" /\ generates /\ call.list # << >>
              IN  /\ fetch # "ok" => db = "ok" /\ outcome = NoOutcome
                  /\ db # "ok" \/ ~generates => outcome = NoOutcome
                  /\ msg_body' = IF fetch = "ok" THEN message.body ELSE msg_body
                  /\ msg_sender' = IF fetch = "ok" THEN sSender ELSE msg_sender
                  /\ found_hints' = IF fetch = "ok" THEN row.password_hints ELSE found_hints
                  /\ found_rules' = IF fetch = "ok" THEN row.password_rules ELSE found_rules
                  /\ emails' = IF stored THEN row ELSE emails
                  /\ email_ids' = IF stored THEN email_ids \cup { message.id } ELSE email_ids
                  /\ llm_outcome' = IF stored /\ generates THEN outcome ELSE llm_outcome
                  /\ candidates' = IF event = "processed" /\ generates THEN call.list
                                   ELSE candidates
                  /\ table' = IF saved THEN save_password_candidates(call.list) ELSE table
                  /\ processed_count' = IF event = "processed" THEN processed_count + 1
                                        ELSE processed_count
                  /\ run_log' = Append(run_log, Entry(message, event))
    /\ messages' = Tail(messages)
    /\ UNCHANGED << mailbox, returned, runs, successful_password >>
    /\ UNCHANGED << pc, personal_data, llm_manager, llm_candidates, rule_candidates >>
    /\ UNCHANGED << variant, password_candidates, attachments, table_at_call, idx,
                    attempts, result, working >>
    /\ UNCHANGED << llm_response, context >>

\* the loop is over: return processed_count
ReturnProcessedCount ==
    /\ pc = "batch"
    /\ messages = << >>
    /\ returned' = processed_count
    /\ runs' = runs + 1
    /\ pc' = "idle"
    /\ UNCHANGED << mailbox, messages, email_ids, processed_count, run_log,
                    successful_password >>
    /\ UNCHANGED genVars
    /\ UNCHANGED verVars
    /\ UNCHANGED txtVars

NextBatch == SearchCreditCardEmails \/ SkipProcessed \/ ProcessMessage \/ ReturnProcessedCount

SpecBatch == InitBatch /\ [][NextBatch]_vars

\* a run over the messages of the mailbox has returned
RunEnded == pc = "idle" /\ runs >= 1 /\ \E k \in DOMAIN run_log : run_log[k].run = runs

\* the entries of the run that returned last
LastRun == { k \in DOMAIN run_log : run_log[k].run = runs }

EntriesOf(events) == { k \in LastRun : run_log[k].event \in events }

\* the events in which the except handler of the message logged an error, or
\* the message was given up for want of its details
SkipEvents == { "no_details", "fetch_failed", "store_failed", "generate_failed" }

\* What a run reports: `return processed_count`, the number also written by the
\* closing log line "Successfully processed N new statement emails".
Report(value) == [ processed |-> value ]

\* C22: an email whose fetching or processing fails is skipped and the rest of
\* the batch is still processed: when the run ends every message of the batch
\* was taken, and the run reports the number processed and the number skipped.
C22_Original_ReportsProcessedAndSkipped ==
    RunEnded =>
        /\ { run_log[k].id : k \in LastRun } = { mailbox[i].id : i \in DOMAIN mailbox }
        /\ Report(returned).processed = Cardinality(EntriesOf({ "processed" }))
        /\ "skipped" \in DOMAIN Report(returned)
        /\ Report(returned).skipped = Cardinality(EntriesOf(SkipEvents))

\* the first message of the batch was skipped on an error, the second one
\* processed, and the run returned 1
C22_Witness ==
    /\ RunEnded
    /\ \E j, k \in LastRun :
          /\ j < k
          /\ run_log[j].event \in SkipEvents
          /\ run_log[k].event = "processed"
    /\ returned = 1

\* the batch itself goes on after a skipped message: every message of the
\* batch is taken and the number returned is the number processed
BatchGoesOn ==
    RunEnded =>
        /\ { run_log[k].id : k \in LastRun } = { mailbox[i].id : i \in DOMAIN mailbox }
        /\ returned = Cardinality(EntriesOf({ "processed" }))

\* how often, over all runs, the message was taken with one of the events
TimesOf(id, events) ==
    Cardinality({ k \in DOMAIN run_log : run_log[k].id = id /\ run_log[k].event \in events })

\* an earlier run went over the messages of the mailbox too
RanBefore == \E k \in DOMAIN run_log : run_log[k].run < runs

\* C29: a message id is downloaded and stored at most once over all runs; a
\* second run over the same mailbox stores nothing and returns 0; the number a
\* run returns is the number of emails that run stored.
C29_Original_StoredOnceAndCounted ==
    /\ \A i \in DOMAIN mailbox :
          /\ TimesOf(mailbox[i].id, DownloadEvents) <= 1
          /\ TimesOf(mailbox[i].id, StoredEvents) <= 1
    /\ RunEnded /\ RanBefore => returned = 0 /\ EntriesOf(StoredEvents) = {}
    /\ RunEnded => returned = Cardinality(EntriesOf(StoredEvents))

\* a run stored a message whose candidate generation then raised, and returned
\* 0 for it
C29_Witness ==
    /\ RunEnded
    /\ returned = 0
    /\ \E k \in LastRun : run_log[k].event = "generate_failed" /\ run_log[k].id \in email_ids

\* what does hold: a stored id is never taken again
StoredIsNeverReprocessed ==
    /\ \A i \in DOMAIN mailbox : TimesOf(mailbox[i].id, StoredEvents) <= 1
    /\ \A j, k \in DOMAIN run_log :
          j < k /\ run_log[j].id = run_log[k].id /\ run_log[j].event \in StoredEvents =>
              run_log[k].event = "already"

-----------------------------------------------------------------------------
(* UnifiedEmailClient.unlock_all_pdfs for one row of unified_emails: the        *)
(* candidates are generated through a temporary row of the emails table and     *)
(* tried on every attachment by try_unlock_pdf_enhanced                         *)

\* temp_email_id = f"temp_{unified_id}"
temp_email_id == "temp"

sUnknown == << "u", "n", "k", "n", "o", "w", "n" >>

UnifiedTexts == { << >>, CardOnlyText }

UnifiedDocs ==
    LET docs == { Unprotected, [ protected |-> TRUE, password |-> s1234 ],
                  [ protected |-> TRUE, password |-> sZz99 ] }
    IN  SeqsUpTo(docs, MaxDocs) \ { << >> }

InitUnified ==
    /\ emails = NoRow
    /\ personal_data \in { NoPersonalData, "birth_date" :> << sBirthDate >> }
    /\ llm_manager \in { "none", "ollama" }
    /\ llm_outcome = NoOutcome
    /\ candidates = << >>
    /\ llm_candidates = << >>
    /\ rule_candidates = << >>
    /\ pc = "idle"
    /\ variant = "enhanced"
    /\ password_candidates = << >>
    /\ attachments \in UnifiedDocs
    /\ table = NoTable
    /\ table_at_call = NoTable
    /\ idx = 0
    /\ attempts = << >>
    /\ result = "none"
    /\ working = None
    /\ llm_response = << >>
    /\ msg_body \in UnifiedTexts
    /\ msg_sender = sSender
    /\ \E row \in RowsStoredFor(msg_body, msg_sender) :
          /\ found_hints = row.password_hints
          /\ found_rules = row.password_rules
    /\ context = NoContext
    /\ mailbox = << >>
    /\ messages = << >>
    /\ email_ids \in { {}, { "m1" } }
    /\ processed_count = 0
    /\ run_log = << >>
    /\ returned = None
    /\ runs = 0
    /\ successful_password = None

\* the row _store_temp_gmail_email writes from the fields of the unified row
TempRow ==
    [ stored |-> TRUE, email_body |-> BodyOf(msg_body), sender |-> msg_sender,
      subject |-> "statement", password_hints |-> found_hints,
      password_rules |-> found_rules ]

\* unlock_all_pdfs up to the loop over the attachments: _store_temp_gmail_email,
\* generate_passwords_for_email(temp_email_id), _cleanup_temp_gmail_email; the
\* three calls stand in a row, so an exception of the second leaves before the
\* third
UnlockAllPdfs ==
    /\ pc = "idle"
    /\ \E outcome \in OutcomesIn(TempRow, llm_manager) :
          LET call == Call(TempRow, personal_data, llm_manager, outcome)
          IN  /\ llm_outcome' = outcome
              /\ emails' = IF call.raised THEN TempRow ELSE NoRow
              /\ email_ids' = IF call.raised THEN email_ids \cup { temp_email_id }
                              ELSE email_ids \ { temp_email_id }
              /\ candidates' = IF call.raised THEN candidates ELSE call.list
              /\ password_candidates' = IF call.raised THEN << >> ELSE call.list
              /\ pc' = IF call.raised THEN "raised" ELSE "call"
    /\ UNCHANGED << personal_data, llm_manager, llm_candidates, rule_candidates >>
    /\ UNCHANGED << variant, attachments, table, table_at_call, idx, attempts, result,
                    working >>
    /\ UNCHANGED txtVars
    /\ UNCHANGED << mailbox, messages, processed_count, run_log, returned, runs,
                    successful_password >>

\* _mark_pdf_unlocked(unified_id, candidates[0].password if candidates else
\* "unknown") after a call of try_unlock_pdf_enhanced that returned a path;
\* _update_unlock_attempts after one that returned None; an exception of the
\* call leaves unlock_all_pdfs
MarkPdfUnlocked ==
    /\ pc = "returned"
    /\ pc' = IF result = "raised" THEN "raised" ELSE "marked"
    /\ successful_password' =
          IF result = "success"
          THEN IF password_candidates # << >> THEN password_candidates[1].password
               ELSE sUnknown
          ELSE successful_password
    /\ UNCHANGED genVars
    /\ UNCHANGED verVars
    /\ UNCHANGED txtVars
    /\ UNCHANGED batchVars

\* for pdf_path in attachments: the next PDF of the email
NextUnifiedAttachment ==
    /\ pc = "marked"
    /\ Len(attachments) > 1
    /\ attachments' = Tail(attachments)
    /\ pc' = "call"
    /\ idx' = 0
    /\ attempts' = << >>
    /\ result' = "none"
    /\ working' = None
    /\ UNCHANGED << variant, password_candidates, table, table_at_call >>
    /\ UNCHANGED genVars
    /\ UNCHANGED txtVars
    /\ UNCHANGED clientVars

NextUnified ==
    \/ UnlockAllPdfs
    \/ TryWithoutPassword
    \/ TryCandidate
    \/ ReturnNone
    \/ MarkPdfUnlocked
    \/ NextUnifiedAttachment

SpecUnified == InitUnified /\ [][NextUnified]_vars

\* C23: candidate generation treats emails and personal facts as read-only: no
\* step of unlock_all_pdfs, on whatever path, changes the rows of the emails
\* table or of the personal_data table.
C23_Original_StoresUnchanged ==
    [][email_ids' = email_ids /\ personal_data' = personal_data]_vars

\* the generation raised between the insertion and the deletion of the
\* temporary row, which is left in the emails table
C23_Witness ==
    /\ pc = "raised"
    /\ temp_email_id \in email_ids
    /\ emails = TempRow
    /\ attempts = << >>

\* C27: after unlock_all_pdfs unlocked an attachment, the successful_password
\* stored for the email is the password that opened the PDF, and the stored
\* value is left alone when the PDF opened without a password.
C27_Original_StoresPasswordThatOpened ==
    [][pc = "returned" /\ result = "success" =>
          successful_password' = IF working = None THEN successful_password
                                 ELSE working]_vars

\* the PDF was opened by a candidate that is not the first of the list, and the
\* first of the list was stored as the successful password
C27_Witness ==
    /\ pc = "marked"
    /\ result = "success"
    /\ working # None
    /\ Opens(CurrentDoc, working)
    /\ successful_password = password_candidates[1].password
    /\ ~Opens(CurrentDoc, successful_password)

-----------------------------------------------------------------------------
(* The personal-data setup, then generate_passwords_for_email *)

MaxFacts == 2

sDefaultDob == << "1", "0", "0", "3", "1", "9", "8", "4" >>

\* the (data_type, data_value) pairs the setups enter: the example of
\* EnhancedGmailClient (lines 1101-1104) and the first defaults of
\* PersonalDataManager._insert_default_data_if_empty
SetupFacts ==
    { << "date_of_birth", sDefaultDob >>, << "mobile_number", sMobile >>,
      << "name", sName >>, << "first_name", sName >>, << "card_number", s1234 \o s5678 >> }

\* add_personal_data inserts a row (the table has an autoincrement key, so the
\* REPLACE of INSERT OR REPLACE never applies); get_personal_data_organized
\* groups the values by data_type in row order
add_personal_data(personal, data_type, data_value) ==
    [ t \in DOMAIN personal \cup { data_type } |->
          IF t = data_type THEN PersonalValues(personal, t) \o << data_value >>
          ELSE personal[t] ]

SetupTypeList == << "date_of_birth", "mobile_number", "name", "first_name", "card_number" >>

FactCount(personal) ==
    IF DOMAIN personal = {} THEN 0
    ELSE Len(Flatten([ i \in 1..Len(SetupTypeList) |-> PersonalValues(personal, SetupTypeList[i]) ]))

InitSetup ==
    /\ ClientIdle
    /\ emails \in CardOnlyRows \cup RowsStoredFor(<< >>, sSender)
    /\ personal_data = NoPersonalData
    /\ llm_manager \in { "none", "ollama" }
    /\ llm_outcome = NoOutcome
    /\ candidates = << >>
    /\ llm_candidates = << >>
    /\ rule_candidates = << >>
    /\ pc = "idle"
    /\ VerifierIdle
    /\ TextIdle

\* one call of add_personal_data by the setup
AddPersonalData ==
    /\ pc = "idle"
    /\ FactCount(personal_data) < MaxFacts
    /\ \E fact \in SetupFacts :
          personal_data' = add_personal_data(personal_data, fact[1], fact[2])
    /\ UNCHANGED << emails, llm_manager, llm_outcome, candidates, llm_candidates,
                    rule_candidates, pc >>
    /\ UNCHANGED verVars
    /\ UNCHANGED txtVars
    /\ UNCHANGED clientVars

NextSetup == AddPersonalData \/ GeneratePasswordsForEmail

SpecSetup == InitSetup /\ [][NextSetup]_vars

\* C28: a date of birth entered through the setup, under the category
\* date_of_birth, produces a candidate of source birth_date and confidence 7.0,
\* its separators stripped, in the list generate_passwords_for_email returns.
C28_Original_DateOfBirthCandidate ==
    Generated /\ emails.stored =>
        \A k \in DOMAIN PersonalValues(personal_data, "date_of_birth") :
            \E i \in DOMAIN candidates :
                /\ candidates[i].password =
                       StripSeparators(PersonalValues(personal_data, "date_of_birth")[k])
                /\ candidates[i].source = "birth_date"
                /\ candidates[i].confidence = 7

\* the setup entered the date of birth, the generator returned candidates for
\* the email, and none of them comes from the date of birth
C28_Witness ==
    /\ Generated
    /\ emails.stored
    /\ PersonalValues(personal_data, "date_of_birth") = << sDefaultDob >>
    /\ candidates # << >>
    /\ \A i \in DOMAIN candidates :
           candidates[i].source # "birth_date" /\ candidates[i].password # sDefaultDob

====
